---- MODULE Spec2Model ----
(***************************************************************************)
(* A model of the JSON API serializer of fortune-json-api: one request is  *)
(* routed by initializeContext (lib/helpers.js), its payload is parsed by  *)
(* parseCreate / parseUpdate / updateRelationship (lib/index.js), the      *)
(* store executes the operation, and showResponse / showRelationship /     *)
(* showError (lib/index.js) render the document.                           *)
(*                                                                         *)
(* JavaScript values are encoded uniformly so that they can be compared:   *)
(*   - an identifier is [k, s]: k = "num" for a number whose decimal text  *)
(*     is s, k = "str" for the string s, k = "null" for null / undefined;  *)
(*   - an absent string (undefined) is Nil;                                *)
(*   - a URI is the sequence of its tokens ("/", a segment, "?", "&",      *)
(*     "key=value" as three tokens).                                       *)
(***************************************************************************)
EXTENDS Integers, Sequences, FiniteSets, TLC

VARIABLES
  pc,              \* where the request is in the pipeline
  inflectType,     \* options.inflectType after the constructor ran
  request,         \* the HTTP request and request.meta
  contextRequest,  \* the operation descriptor
  storeCalls,      \* every call handed to the store (adapter), in order
  contextResponse, \* what the store answered: records, count, updateModified
  response,        \* what the serializer produced: headers, payload
  error,           \* the error thrown or returned, if any
  history,         \* the steps of the pipeline taken so far, in order
  suspended        \* the requests in flight that wait at a suspension point

vars == <<pc, inflectType, request, contextRequest, storeCalls,
          contextResponse, response, error, history, suspended>>

-----------------------------------------------------------------------------
(* Bounds of the model.                                                    *)

\* options.maxLimit as configured for the modelled instance.
maxLimit == 3

\* How many records of each type the store holds.
StoreSize == 3

-----------------------------------------------------------------------------
(* Basic values.                                                           *)

Nil == "<nil>"

\* NaN and undefined, for the numeric options (all real values are >= 0
\* after Math.abs).
NaN == 0 - 1000
Undefined == 0 - 2000

Num(s) == [k |-> "num", s |-> s]
Str(s) == [k |-> "str", s |-> s]
NullId == [k |-> "null", s |-> ""]

RECURSIVE SeqMap(_, _)
SeqMap(Op(_), s) ==
  IF s = <<>> THEN <<>> ELSE <<Op(Head(s))>> \o SeqMap(Op, Tail(s))

RECURSIVE SeqFilter(_, _)
SeqFilter(Test(_), s) ==
  IF s = <<>> THEN <<>>
  ELSE (IF Test(Head(s)) THEN <<Head(s)>> ELSE <<>>) \o SeqFilter(Test, Tail(s))

Range(s) == {s[i] : i \in 1..Len(s)}

Min(a, b) == IF a < b THEN a ELSE b

\* Math.floor(a / b) for a >= 0, b > 0.
Floor(a, b) == a \div b

-----------------------------------------------------------------------------
(* settings.js                                                             *)

pageLimit == "page[limit]"
pageOffset == "page[offset]"

\* encodeURIComponent on the keys the serializer encodes.
encodeURIComponent(s) ==
  CASE s = "page[limit]" -> "page%5Blimit%5D"
    [] s = "page[offset]" -> "page%5Boffset%5D"
    [] OTHER -> s

encodedLimit == encodeURIComponent(pageLimit)
encodedOffset == encodeURIComponent(pageOffset)

\* defaults.allowLevel, indexed by the number of URI segments (0..4).
allowLevel(n) ==
  CASE n = 0 -> <<"GET">>
    [] n = 1 -> <<"GET", "POST">>
    [] n = 2 -> <<"GET", "PATCH", "DELETE">>
    [] n = 3 -> <<"GET">>
    [] OTHER -> <<"GET", "POST", "PATCH", "DELETE">>

\* defaults.inflectKeys.
inflectKeys == TRUE

reservedRelationships == "relationships"
reservedInclude == "include"

-----------------------------------------------------------------------------
(* The Resource Type Registry (this.recordTypes) of the modelled instance. *)

RecordTypeNames == {"user", "animal"}

AttrField == [link |-> Nil, isArray |-> FALSE, inverse |-> FALSE, attr |-> TRUE]
LinkField(t, many) ==
  [link |-> t, isArray |-> many, inverse |-> FALSE, attr |-> FALSE]

FieldNames(type) ==
  CASE type = "user" -> {"name", "spouse", "ownedPets"}
    [] type = "animal" -> {"name", "owner", "keepers"}
    [] OTHER -> {}

\* recordTypes[type][field]
FieldDef(type, field) ==
  CASE type = "user" /\ field = "spouse" -> LinkField("user", FALSE)
    [] type = "user" /\ field = "ownedPets" -> LinkField("animal", TRUE)
    [] type = "animal" /\ field = "owner" -> LinkField("user", FALSE)
    \* A denormalized inverse field, which no route may name.
    [] type = "animal" /\ field = "keepers" ->
         [LinkField("user", TRUE) EXCEPT !.inverse = TRUE]
    [] OTHER -> AttrField

IsLinkArray(type, field) == FieldDef(type, field).isArray

-----------------------------------------------------------------------------
(* Inflection (the inflection library, on the names of the model).         *)

singularize(s) ==
  CASE s = "users" -> "user"
    [] s = "animals" -> "animal"
    [] OTHER -> s

pluralize(s) ==
  CASE s = "user" -> "users"
    [] s = "animal" -> "animals"
    [] OTHER -> s

\* inflection.camelize(s) capitalises the first letter.
camelize(s) ==
  CASE s = "user" -> "User"
    [] s = "animal" -> "Animal"
    [] s = "foo" -> "Foo"
    [] OTHER -> s

lowerFirst(s) ==
  CASE s = "User" -> "user"
    [] s = "Animal" -> "animal"
    [] s = "Foo" -> "foo"
    [] OTHER -> s

checkLowerCase(type) ==
  IF lowerFirst(type) \in RecordTypeNames THEN lowerFirst(type) ELSE type

\* typeInflections[0] applied to a wire type, then checkLowerCase.
inflectIn(wire) == checkLowerCase(camelize(singularize(wire)))

\* typeInflections[1]: pluralize, underscore, dasherize.
inflectOut(type) == pluralize(type)

\* inflection.camelize(underscore(field), true) on a wire field name.
camelizeField(f) ==
  CASE f = "owned-pets" -> "ownedPets"
    [] f = "owned_pets" -> "ownedPets"
    [] OTHER -> f

\* inflection.transform(field, ['underscore', 'dasherize']).
dasherizeField(f) ==
  CASE f = "ownedPets" -> "owned-pets"
    [] OTHER -> f

inflectField(f) == IF inflectKeys THEN camelizeField(f) ELSE f
outField(f) == IF inflectKeys THEN dasherizeField(f) ELSE f

\* The names options.inflectType may be keyed by.
TypeKeys == {"user", "users", "animal", "animals"}

\* setInflectType(options.inflectType, type names): the option as an object.
\* A name the object does not hold reads as undefined, that is FALSE.
InflectTypeMaps ==
  { [n \in TypeKeys |-> FALSE],
    [n \in TypeKeys |-> n \in RecordTypeNames],
    [n \in TypeKeys |-> TRUE] }

InflectTypeOf(map, name) == IF name \in DOMAIN map THEN map[name] ELSE FALSE

-----------------------------------------------------------------------------
(* Identifier coercion (helpers.js castId, matchId).                       *)

\* Number(s), the coercion the subtraction `id - float` applies to a string:
\* decimal and prefixed (hexadecimal) numerals are numbers, the rest is NaN.
toNumber(s) ==
  CASE s = "1" -> 1
    [] s = "2" -> 2
    [] s = "3" -> 3
    [] s = "4" -> 4
    [] s = "5" -> 5
    [] s = "404" -> 404
    [] s = "2.0" -> 2
    [] s = "0x10" -> 16
    [] OTHER -> NaN

\* Number.parseFloat(s): the longest decimal prefix, NaN when there is none.
parseFloat(s) ==
  CASE s = "1" -> 1
    [] s = "2" -> 2
    [] s = "3" -> 3
    [] s = "4" -> 4
    [] s = "5" -> 5
    [] s = "404" -> 404
    [] s = "2.0" -> 2
    [] s = "0x10" -> 0
    [] OTHER -> NaN

\* `id - float + 1 >= 0 ? float : id`; a comparison with NaN is false.
castId(id) ==
  IF id.k # "str" THEN id
  ELSE LET float == parseFloat(id.s)
           number == toNumber(id.s)
       IN  IF float # NaN /\ number # NaN /\ number - float + 1 >= 0
           THEN Num(ToString(float))
           ELSE id

\* id.toString()
idToString(id) == id.s

-----------------------------------------------------------------------------
(* The store (this.adapter and the Fortune instance behind it): records     *)
(* 1..StoreSize of every type.  Users 1 and 2 are each other's spouse,      *)
(* user 1 owns animal 1, user 2 owns animals 2 and 3; nobody else is linked.*)

IdOf(i) == Num(ToString(i))

UserRecord(i) ==
  [id |-> IdOf(i),
   name |-> "name",
   spouse |-> IF i = 1 THEN IdOf(2) ELSE IF i = 2 THEN IdOf(1) ELSE NullId,
   ownedPets |-> IF i = 1 THEN <<IdOf(1)>>
                 ELSE IF i = 2 THEN <<IdOf(2), IdOf(3)>> ELSE <<>>]

AnimalRecord(i) ==
  [id |-> IdOf(i),
   name |-> "name",
   owner |-> IF i = 1 THEN IdOf(1)
             ELSE IF i \in {2, 3} THEN IdOf(2) ELSE NullId]

StoreRecord(type, i) == IF type = "user" THEN UserRecord(i) ELSE AnimalRecord(i)

RECURSIVE StoreScan(_, _, _)
StoreScan(type, from, to) ==
  IF from > to THEN <<>>
  ELSE <<StoreRecord(type, from)>> \o StoreScan(type, from + 1, to)

AllRecords(type) == StoreScan(type, 1, StoreSize)

\* adapter.find(type, ids): the records whose identifier is one of ids.
FindByIds(type, ids) ==
  LET Wanted(r) == r.id \in Range(ids)
  IN  SeqFilter(Wanted, AllRecords(type))

\* adapter.find(type) with options.offset / options.limit: the page window.
FindPage(type, offset, limit) ==
  LET from == (IF offset < 0 THEN 0 ELSE offset) + 1
  IN  StoreScan(type, from, Min(from + limit - 1, StoreSize))

\* record[field] for a link field.
LinkValue(type, record, field) ==
  CASE type = "user" /\ field = "spouse" -> <<record.spouse>>
    [] type = "user" /\ field = "ownedPets" -> record.ownedPets
    [] type = "animal" /\ field = "owner" -> <<record.owner>>
    [] OTHER -> <<>>

-----------------------------------------------------------------------------
(* Requests.                                                               *)

Param(k, v) == [k |-> k, v |-> v]

\* request.url as the URI template parses it (uriTemplate.fromUri).
Uri(type, ids, relatedField, relationship, query) ==
  [type |-> type, ids |-> ids, relatedField |-> relatedField,
   relationship |-> relationship, query |-> query]

\* The request body.
NoBody == [kind |-> "none", hasData |-> FALSE, isNull |-> FALSE,
           isArray |-> FALSE, items |-> <<>>]
InvalidJson == [kind |-> "invalid", hasData |-> FALSE, isNull |-> FALSE,
                isArray |-> FALSE, items |-> <<>>]
EmptyDoc == [kind |-> "doc", hasData |-> FALSE, isNull |-> FALSE,
             isArray |-> FALSE, items |-> <<>>]
NullDoc == [kind |-> "doc", hasData |-> TRUE, isNull |-> TRUE,
            isArray |-> FALSE, items |-> <<>>]
ObjectDoc(res) == [kind |-> "doc", hasData |-> TRUE, isNull |-> FALSE,
                   isArray |-> FALSE, items |-> <<res>>]
ArrayDoc(items) == [kind |-> "doc", hasData |-> TRUE, isNull |-> FALSE,
                    isArray |-> TRUE, items |-> items]

\* A resource object or resource identifier object of a payload.
Resource(type, id, rels) ==
  [type |-> type, id |-> id, rels |-> rels]
\* A member of "relationships": its data is absent, null, one identifier
\* object or an array of them.
Rel(field, shape, items) == [field |-> field, shape |-> shape, items |-> items]

HasType(res) == res.type # Nil
HasId(res) == res.id # NullId

-----------------------------------------------------------------------------
(* helpers.js: attachQueries (pagination part).                            *)

\* parseInt(v, 10)
parseInt(v) ==
  CASE v = "0" -> 0
    [] v = "1" -> 1
    [] v = "2" -> 2
    [] v = "3" -> 3
    [] v = "4" -> 4
    [] v = "5" -> 5
    [] v = "-1" -> 0 - 1
    [] v = "1.5" -> 1
    [] OTHER -> NaN

\* Math.abs(parseInt(v, 10)); NaN stays NaN.
absInt(v) ==
  LET n == parseInt(v)
  IN  IF n = NaN THEN NaN ELSE IF n < 0 THEN 0 - n ELSE n

HasKey(query, k) == \E i \in 1..Len(query) : query[i].k = k

QueryValue(query, k) ==
  LET i == CHOOSE i \in 1..Len(query) : query[i].k = k
  IN  query[i].v

\* `!limit || limit > maxLimit`: undefined, NaN and 0 are falsy.
checkLimit(limit) ==
  IF limit = Undefined \/ limit = NaN \/ limit = 0 \/ limit > maxLimit
  THEN maxLimit ELSE limit

attachQueries(query) ==
  [offset |-> IF HasKey(query, pageOffset)
              THEN absInt(QueryValue(query, pageOffset)) ELSE Undefined,
   limit |-> checkLimit(IF HasKey(query, pageLimit)
                        THEN absInt(QueryValue(query, pageLimit))
                        ELSE Undefined)]

\* Maximum number of fields per include.
includeLimit == 3

\* path.slice(0, n)
slice(path, n) == SubSeq(path, 1, IF Len(path) < n THEN Len(path) ELSE n)

\* A variant of hasPath that finds no path in the list.
pathNeverListed(include, j) == FALSE

\* request.include.some(deepEqual.bind(null, j))
hasPath(include, j) == \E k \in 1..Len(include) : include[k] = j

\* The inner loop over one path: for i = path.length - 1 down to 1, push the
\* prefix of length i unless a path equal to it is in the list.
RECURSIVE expandPath(_, _, _)
expandPath(include, path, i) ==
  IF i <= 0 THEN include
  ELSE LET j == SubSeq(path, 1, i)
       IN  expandPath(IF hasPath(include, j) THEN include
                      ELSE Append(include, j), path, i - 1)

\* The outer loop, `for (const path of request.include)`: the iterator also
\* visits the paths pushed while it runs.
RECURSIVE expandFrom(_, _)
expandFrom(include, k) ==
  IF k > Len(include) THEN include
  ELSE expandFrom(expandPath(include, include[k], Len(include[k]) - 1), k + 1)

\* The query value split on ',' and '.', each segment inflected, each path
\* cut to includeLimit segments.  The value is held as its paths, each the
\* sequence of its segments ("" is the one segment of an empty path).
requestedPaths(value) ==
  [k \in 1..Len(value) |->
     slice([i \in 1..Len(value[k]) |-> inflectField(value[k][i])],
           includeLimit)]

\* The include option of attachQueries; absent without the query key.
parseInclude(query) ==
  IF HasKey(query, reservedInclude)
  THEN expandFrom(requestedPaths(QueryValue(query, reservedInclude)), 1)
  ELSE Undefined

\* `offset || 0`: undefined and NaN count as 0.
offsetOrZero(offset) == IF offset < 0 THEN 0 ELSE offset

-----------------------------------------------------------------------------
(* Errors.                                                                 *)

\* An error: its name, its message and its enumerable keys in order.
NoError == [name |-> Nil, message |-> Nil, keys |-> <<>>]
Err(name, message) == [name |-> name, message |-> message, keys |-> <<>>]

\* An enumerable key of an error: the members of its value (an object),
\* or a falsy value.
ErrorKey(key, members, falsy) ==
  [key |-> key, members |-> members, falsy |-> falsy]

-----------------------------------------------------------------------------
(* helpers.js: initializeContext.                                          *)

methodMap(httpMethod) ==
  CASE httpMethod = "GET" -> "find"
    [] httpMethod = "POST" -> "create"
    [] httpMethod = "PATCH" -> "update"
    [] httpMethod = "DELETE" -> "delete"
    [] OTHER -> Nil

\* uriObject.type inflected to a record type name; the option object is
\* truthy, so the route's type is always inflected.
routeType(uri) == IF uri.type # Nil THEN inflectIn(uri.type) ELSE Nil

\* A variant of uriDegree that counts the query as well.
uriDegreeWithQuery(uri) ==
  (IF uri.type # Nil THEN 1 ELSE 0) + (IF uri.ids # <<>> THEN 1 ELSE 0) +
  (IF uri.relatedField # Nil THEN 1 ELSE 0) +
  (IF uri.relationship # Nil THEN 1 ELSE 0) +
  (IF uri.query # <<>> THEN 1 ELSE 0)

\* Object.keys(uriObject).filter(key => uriObject[key]).length, the query
\* having been deleted.
uriDegree(uri) ==
  (IF uri.type # Nil THEN 1 ELSE 0) + (IF uri.ids # <<>> THEN 1 ELSE 0) +
  (IF uri.relatedField # Nil THEN 1 ELSE 0) +
  (IF uri.relationship # Nil THEN 1 ELSE 0)

allowHeader(uri) == allowLevel(uriDegree(uri))

\* uriObject.ids normalised to an array and cast; null when absent.
routeIds(uri) == SeqMap(castId, SeqMap(Str, uri.ids))

\* POST and DELETE on a relationship entity are treated as updates.
\* Returns <<contextRequest.method, contextRequest.originalMethod>>.
\* A variant of rewriteMethod that rewrites POST alone.
rewriteCreateOnly(method, uri) ==
  IF uri.relationship # Nil /\ method = "create"
  THEN <<"update", method>>
  ELSE <<method, Nil>>

rewriteMethod(method, uri) ==
  IF uri.relationship # Nil /\ method \in {"create", "delete"}
  THEN <<"update", method>>
  ELSE <<method, Nil>>

\* The field the route names, camelized: the relationship segment when
\* there is one, the related-field segment otherwise.
routeField(uri) ==
  LET raw == IF uri.relationship # Nil THEN uri.relationship
             ELSE uri.relatedField
  IN  IF raw # Nil THEN inflectField(raw) ELSE Nil

\* A variant of isRouteLink that lets a denormalized inverse through.
isAnyLink(type, field) ==
  /\ field \in FieldNames(type)
  /\ FieldDef(type, field).link # Nil

\* `relatedField in fields && keys.link in fields[relatedField] &&
\*  !fields[relatedField][keys.denormalizedInverse]`
isRouteLink(type, field) ==
  /\ field \in FieldNames(type)
  /\ FieldDef(type, field).link # Nil
  /\ ~FieldDef(type, field).inverse

Descriptor(method, originalMethod, type, hasIds, ids, uri, options) ==
  [method |-> method, originalMethod |-> originalMethod,
   type |-> type, hasIds |-> hasIds, ids |-> ids,
   relatedField |-> Nil, relationship |-> Nil,
   originalType |-> Nil, originalIds |-> <<>>,
   uriObject |-> uri, options |-> options,
   include |-> parseInclude(uri.query), payload |-> <<>>]

\* The synchronous part of initializeContext, up to the store lookup.
\* kind: "throw" (an error), "options" (the Allow response), "lookup" (the
\* related-field lookup was issued) or "ready" (the descriptor is returned).
initializeContext(req) ==
  LET uri == req.uri
      method == methodMap(req.method)
      type == routeType(uri)
      ids == routeIds(uri)
      hasIds == uri.ids # <<>>
      rw == rewriteMethod(method, uri)
      field == routeField(uri)
      ctx == Descriptor(method, Nil, type, hasIds, ids, uri,
                        attachQueries(uri.query))
      Out(kind, c, e, f) == [kind |-> kind, ctx |-> c, err |-> e, field |-> f]
  IN  IF req.accept = "parametrised"
      THEN Out("throw", ctx, Err("NotAcceptableError", "accept"), Nil)
      ELSE IF ~req.matched
      THEN Out("throw", ctx, Err("NotFoundError", "Invalid URI."), Nil)
      ELSE IF req.method = "OPTIONS" /\ (type = Nil \/ type \in RecordTypeNames)
      THEN Out("options", ctx, NoError, Nil)
      ELSE IF uri.relationship # Nil /\ uri.relatedField # reservedRelationships
      THEN Out("throw", ctx,
               Err("NotFoundError", "Invalid relationship URI."), Nil)
      ELSE LET ctx2 == [ctx EXCEPT !.method = rw[1], !.originalMethod = rw[2]]
           IN  IF field = Nil THEN Out("ready", ctx2, NoError, Nil)
               ELSE IF type \notin RecordTypeNames
               THEN Out("throw", ctx2, Err("TypeError", "fields is undefined"), Nil)
               ELSE IF ~isRouteLink(type, field)
               THEN Out("throw", ctx2,
                        Err("NotFoundError", "The field is not a link on the type."),
                        Nil)
               ELSE Out("lookup", ctx2, NoError, field)

\* The related identifiers of the looked-up records: a Set, so each once,
\* in order of first occurrence.
RECURSIVE Dedup(_, _)
Dedup(s, seen) ==
  IF s = <<>> THEN <<>>
  ELSE IF Head(s) \in seen THEN Dedup(Tail(s), seen)
  ELSE <<Head(s)>> \o Dedup(Tail(s), seen \cup {Head(s)})

RECURSIVE FlattenLinks(_, _, _)
FlattenLinks(type, records, field) ==
  IF records = <<>> THEN <<>>
  ELSE LinkValue(type, Head(records), field)
         \o FlattenLinks(type, Tail(records), field)

relatedIds(type, records, field) == Dedup(FlattenLinks(type, records, field), {})

\* The `.then` callback of the lookup: copy the original type and ids and
\* write the related type and ids over them.
resolveRelated(ctx, field, records) ==
  [ctx EXCEPT !.relatedField = field,
              !.relationship = ctx.uriObject.relationship,
              !.originalType = ctx.type,
              !.originalIds = ctx.ids,
              !.type = FieldDef(ctx.type, field).link,
              !.hasIds = TRUE,
              !.ids = relatedIds(ctx.type, records, field)]

-----------------------------------------------------------------------------
(* index.js: the payload parsers.                                          *)

\* `inflectType[name] ? checkLowerCase(transform(name, In)) : name`
payloadType(map, name) ==
  IF InflectTypeOf(map, name) THEN inflectIn(name) ELSE name

\* `inflectType[linkKey] ? transform(linkKey, Out) : linkKey`
wireLinkType(map, linkKey) ==
  IF InflectTypeOf(map, linkKey) THEN inflectOut(linkKey) ELSE linkKey

Parsed(field, shape, ids) == [field |-> field, shape |-> shape, ids |-> ids]

\* A variant of mapIds that does not look at the types.
mapIdsOfAnyType(relatedType, items) ==
  [err |-> NoError, ids |-> [i \in 1..Len(items) |-> castId(items[i].id)]]

\* helpers.js mapId over the identifier objects of one relationship: the
\* first identifier object of another type is a conflict.
mapIds(relatedType, items) ==
  IF \E i \in 1..Len(items) : items[i].type # relatedType
  THEN [err |-> Err("ConflictError", "Data object field type is invalid."),
        ids |-> <<>>]
  ELSE [err |-> NoError,
        ids |-> [i \in 1..Len(items) |-> castId(items[i].id)]]

\* One member of "relationships" (index.js 1087-1109 and 1187-1208).  The
\* parsed shape is "null", "one" (a scalar) or "many" (an array).
parseRelationship(map, type, rel) ==
  LET field == inflectField(rel.field)
      def == FieldDef(type, field)
      relatedType == wireLinkType(map, def.link)
      mapped == mapIds(relatedType, rel.items)
  IN  IF rel.shape = "absent"
      THEN [err |-> Err("BadRequestError", "The data field is missing."),
            out |-> Parsed(field, "null", <<>>)]
      ELSE IF field \notin FieldNames(type)
      THEN [err |-> Err("TypeError", "fields[field] is undefined"),
            out |-> Parsed(field, "null", <<>>)]
      ELSE IF rel.shape = "null"
      THEN [err |-> NoError, out |-> Parsed(field, "null", <<>>)]
      ELSE IF mapped.err # NoError
      THEN [err |-> mapped.err, out |-> Parsed(field, "null", <<>>)]
      ELSE IF ~def.isArray /\ mapped.ids = <<>>
      THEN \* `[][0]`: the first element of an empty array is undefined.
           [err |-> NoError, out |-> Parsed(field, "undefined", <<>>)]
      ELSE IF ~def.isArray
      THEN [err |-> NoError, out |-> Parsed(field, "one", <<mapped.ids[1]>>)]
      ELSE [err |-> NoError, out |-> Parsed(field, "many", mapped.ids)]

\* The members of "relationships" in order; the first error is thrown.
RECURSIVE parseRelationships(_, _, _)
parseRelationships(map, type, rels) ==
  IF rels = <<>> THEN [err |-> NoError, out |-> <<>>]
  ELSE LET first == parseRelationship(map, type, Head(rels))
           rest == parseRelationships(map, type, Tail(rels))
       IN  IF first.err # NoError THEN [err |-> first.err, out |-> <<>>]
           ELSE IF rest.err # NoError THEN rest
           ELSE [err |-> NoError, out |-> <<first.out>> \o rest.out]

Thrown(e) == [err |-> e, out |-> <<>>]
Returned(out) == [err |-> NoError, out |-> out]

\* A record for the store, or an update: the operation keys it carries
\* ("replace", "push", "pull"; none for a record to create).
Mutation(id, keys, rels) == [id |-> id, keys |-> keys, rels |-> rels]

\* A variant of createRouteError that checks the related field alone.
createRelatedError(ctx) ==
  IF ctx.relatedField # Nil
  THEN Err("MethodError", "Can not create related record.")
  ELSE NoError

\* The route checks of parseCreate: no identifier and no related field.
createRouteError(ctx) ==
  IF ctx.hasIds THEN Err("MethodError", "Can not create with ID in the route.")
  ELSE IF ctx.relatedField # Nil
  THEN Err("MethodError", "Can not create related record.")
  ELSE NoError

parseCreate(map, ctx, payload) ==
  IF payload.kind = "invalid"
  THEN Thrown(Err("BadRequestError", "Invalid JSON"))
  ELSE IF createRouteError(ctx) # NoError THEN Thrown(createRouteError(ctx))
  ELSE IF payload.hasData /\ payload.isArray
  THEN Thrown(Err("BadRequestError", "Data must be singular."))
  ELSE IF ~payload.hasData \/ payload.isNull
  THEN Thrown(Err("TypeError", "Cannot use 'in' operator"))
  ELSE LET record == payload.items[1]
           rels == parseRelationships(map, ctx.type, record.rels)
       IN  IF ~HasType(record)
           THEN Thrown(Err("BadRequestError", "The required field type is missing."))
           ELSE IF payloadType(map, record.type) # ctx.type
           THEN Thrown(Err("ConflictError", "Incorrect type."))
           ELSE IF ctx.type \notin RecordTypeNames /\ record.rels # <<>>
           THEN Thrown(Err("TypeError", "fields is undefined"))
           ELSE IF rels.err # NoError THEN Thrown(rels.err)
           ELSE Returned(<<Mutation(castId(record.id), {}, rels.out)>>)

\* helpers.js matchId: `id === castId(object.id)`
\* A variant of matchId that accepts any identifier.
matchAnyId(object, id) == TRUE

matchId(object, id) == id = castId(object.id)

\* A variant of relationshipUpdateId that takes the related record's id.
relatedUpdateId(ctx) == IF ctx.ids # <<>> THEN ctx.ids[1] ELSE NullId

\* The id of the update of a relationship: the owning record's.
relationshipUpdateId(ctx) == ctx.originalIds[1]

\* `originalMethod ? originalMethod === methods.create ? 'push' : 'pull'
\*  : 'replace'`
relationshipOperation(originalMethod) ==
  IF originalMethod = Nil THEN "replace"
  ELSE IF originalMethod = "create" THEN "push" ELSE "pull"

\* A variant of severalOwners that lets two owners through.
moreThanTwoOwners(originalIds) == Len(originalIds) > 2

\* `originalIds.length > 1`
severalOwners(originalIds) == Len(originalIds) > 1

updateRelationship(map, ctx, payload) ==
  LET isArray == IsLinkArray(ctx.originalType, ctx.relatedField)
      operation == relationshipOperation(ctx.originalMethod)
      items == payload.items
      ids == [i \in 1..Len(items) |-> castId(items[i].id)]
  IN  IF severalOwners(ctx.originalIds)
      THEN Thrown(Err("NotFoundError",
                      "Can only update relationships for one record at a time."))
      ELSE IF ~isArray /\ ctx.originalMethod # Nil
      THEN Thrown(Err("MethodError", "Can not push to or pull from a to-one relationship."))
      ELSE IF ~isArray /\ payload.hasData /\ payload.isArray
      THEN Thrown(Err("BadRequestError", "Data must be singular."))
      ELSE IF ~payload.hasData \/ payload.isNull
      THEN Thrown(Err("TypeError", "Cannot read property of undefined"))
      ELSE IF isArray /\ ~payload.isArray
      THEN Thrown(Err("TypeError", "updateIds.map is not a function"))
      ELSE IF \E i \in 1..Len(items) :
                /\ payloadType(map, items[i].type) # ctx.type
                /\ \A j \in 1..(i - 1) : HasId(items[j])
      THEN Thrown(Err("ConflictError", "Incorrect type."))
      ELSE IF \E i \in 1..Len(items) : ~HasId(items[i])
      THEN Thrown(Err("BadRequestError", "ID is unspecified."))
      ELSE Returned(<<Mutation(relationshipUpdateId(ctx), {operation},
                       <<Parsed(ctx.relatedField,
                                IF isArray THEN "many" ELSE "one", ids)>>)>>)

parseUpdate(map, ctx, payload) ==
  IF payload.kind = "invalid"
  THEN Thrown(Err("BadRequestError", "Invalid JSON"))
  ELSE IF ctx.relationship # Nil THEN updateRelationship(map, ctx, payload)
  ELSE IF ctx.relatedField # Nil
  THEN Thrown(Err("MethodError", "Can not update related record indirectly."))
  ELSE IF ~ctx.hasIds \/ ctx.ids = <<>>
  THEN Thrown(Err("BadRequestError", "IDs unspecified."))
  ELSE IF payload.hasData /\ payload.isArray
  THEN Thrown(Err("BadRequestError", "Data must be singular."))
  ELSE IF ~payload.hasData \/ payload.isNull
  THEN Thrown(Err("TypeError", "Cannot read property of undefined"))
  ELSE LET update == payload.items[1]
           rels == parseRelationships(map, ctx.type, update.rels)
       IN  IF ~\E i \in 1..Len(ctx.ids) : matchId(update, ctx.ids[i])
           THEN Thrown(Err("ConflictError", "Invalid ID."))
           ELSE IF payloadType(map, update.type) # ctx.type
           THEN Thrown(Err("ConflictError", "Incorrect type."))
           ELSE IF rels.err # NoError THEN Thrown(rels.err)
           ELSE IF 1 < Len(ctx.ids)
           THEN Thrown(Err("BadRequestError", "An update is missing."))
           ELSE Returned(<<Mutation(castId(update.id), {"replace"}, rels.out)>>)

\* parsePayload: by the descriptor's method.
parsePayload(map, ctx, payload) ==
  IF ctx.method = "create" THEN parseCreate(map, ctx, payload)
  ELSE IF ctx.method = "update" THEN parseUpdate(map, ctx, payload)
  ELSE Thrown(Err("Error", "Method is invalid."))

\* The descriptor after parsePayload: updateRelationship, when it returns,
\* resets the type to the original type and clears the ids.
afterParse(ctx, result) ==
  IF result.err = NoError /\ ctx.method = "update" /\ ctx.relationship # Nil
  THEN [ctx EXCEPT !.type = ctx.originalType, !.hasIds = FALSE, !.ids = <<>>]
  ELSE ctx

-----------------------------------------------------------------------------
(* URIs: uriTemplate.fillFromObject on '{/type,ids,relatedField,           *)
(* relationship}{?query*}', as the sequence of the URI's tokens.           *)

RECURSIVE joinIds(_)
joinIds(ids) ==
  IF ids = <<>> THEN <<>>
  ELSE IF Len(ids) = 1 THEN <<idToString(ids[1])>>
  ELSE <<idToString(ids[1]), ",">> \o joinIds(Tail(ids))

RECURSIVE fillQuery(_, _)
fillQuery(query, first) ==
  IF query = <<>> THEN <<>>
  ELSE <<IF first THEN "?" ELSE "&", encodeURIComponent(Head(query).k), "=",
         Head(query).v>> \o fillQuery(Tail(query), FALSE)

fillFromObject(type, ids, relatedField, relationship, query) ==
  (IF type # Nil THEN <<"/", type>> ELSE <<>>) \o
  (IF ids # <<>> THEN <<"/">> \o joinIds(ids) ELSE <<>>) \o
  (IF relatedField # Nil THEN <<"/", relatedField>> ELSE <<>>) \o
  (IF relationship # Nil THEN <<"/", relationship>> ELSE <<>>) \o
  fillQuery(query, TRUE)

\* `inflectType[type] ? transform(type, Out) : type`
linkType(map, type) == IF InflectTypeOf(map, type) THEN inflectOut(type) ELSE type

-----------------------------------------------------------------------------
(* helpers.js: mapRecord (the node's type, id, self link, relationships).  *)

\* The link fields of a type in the order of Object.keys(fields).
LinkFieldSeq(type) ==
  CASE type = "user" -> <<"spouse", "ownedPets">>
    [] type = "animal" -> <<"owner">>
    [] OTHER -> <<>>

\* toIdentifier(type, id): the identifier is cast to a string.
toIdentifier(type, id) == Resource(type, Str(idToString(id)), <<>>)

\* clone.relationships[field].data: an array of identifier objects for a
\* to-many field, one identifier object or null for a to-one field.  The
\* option object is truthy, so the linked type is always inflected.
mapRelationship(type, record, field) ==
  LET def == FieldDef(type, field)
      linkedType == inflectOut(def.link)
      ids == LinkValue(type, record, field)
      identifiers == [i \in 1..Len(ids) |-> toIdentifier(linkedType, ids[i])]
  IN  IF def.isArray THEN Rel(outField(field), "many", identifiers)
      ELSE IF ids[1] # NullId THEN Rel(outField(field), "one", identifiers)
      ELSE Rel(outField(field), "null", <<>>)

\* A variant of relationshipLinks that builds the links on the linked type.
relationshipLinksOfLinkedType(type, record, field) ==
  LET linkedType == inflectOut(FieldDef(type, field).link)
      name == outField(outField(field))
  IN  [self |-> fillFromObject(linkedType, <<record.id>>,
                               reservedRelationships, name, <<>>),
       related |-> fillFromObject(linkedType, <<record.id>>, name, Nil, <<>>)]

\* clone.relationships[field].links: self names the relationship entity,
\* related the related records; the field is dasherized, and once more
\* for the link.  They are built whether the record carries the field or
\* not.
relationshipLinks(type, record, field) ==
  LET name == outField(outField(field))
  IN  [self |-> fillFromObject(inflectOut(type), <<record.id>>,
                               reservedRelationships, name, <<>>),
       related |-> fillFromObject(inflectOut(type), <<record.id>>, name, Nil,
                                  <<>>)]

mapRecord(type, record) ==
  [type |-> inflectOut(type),
   id |-> idToString(record.id),
   self |-> fillFromObject(inflectOut(type), <<record.id>>, Nil, Nil, <<>>),
   rels |-> [i \in 1..Len(LinkFieldSeq(type)) |->
               mapRelationship(type, record, LinkFieldSeq(type)[i])],
   relLinks |-> [i \in 1..Len(LinkFieldSeq(type)) |->
                   relationshipLinks(type, record, LinkFieldSeq(type)[i])]]

\* uriTemplate.fromUri on a link without query: the segments after each
\* '/' fill type, ids, relatedField and relationship in that order, and a
\* list of ids is split on ','.
fromUri(tokens) ==
  LET RECURSIVE splitPath(_, _)
      splitPath(rest, segments) ==
        IF rest = <<>> THEN segments
        ELSE IF Head(rest) = "/"
        THEN splitPath(Tail(rest), Append(segments, <<>>))
        ELSE IF segments = <<>> THEN splitPath(Tail(rest), <<<<Head(rest)>>>>)
        ELSE splitPath(Tail(rest),
                       [segments EXCEPT
                          ![Len(segments)] = Append(@, Head(rest))])
      segments == splitPath(tokens, <<>>)
      NotComma(t) == t # ","
      One(i) == IF Len(segments) >= i /\ segments[i] # <<>>
                THEN segments[i][1] ELSE Nil
  IN  Uri(One(1),
          IF Len(segments) >= 2 THEN SeqFilter(NotComma, segments[2]) ELSE <<>>,
          One(3), One(4), <<>>)

-----------------------------------------------------------------------------
(* index.js: showResponse, showRelationship, showError.                    *)

NoLinks == [self |-> <<>>, related |-> <<>>, first |-> <<>>, last |-> <<>>,
            next |-> <<>>, prev |-> <<>>]

\* A response payload.  kind: "none" (no body), "data", "errors", "index".
\* shape: how the primary data is shaped: "absent", "null", "one", "many".
Payload(kind, shape, data, links, count, errors) ==
  [kind |-> kind, shape |-> shape, data |-> data, links |-> links,
   count |-> count, errors |-> errors]

NoPayload == Payload("none", "absent", <<>>, NoLinks, Undefined, <<>>)

\* `delete query[pageOffset]; delete query[pageLimit]`
\* A variant of deletePageKeys that leaves the query as it is.
keepPageKeys(query) == query

\* `delete query[pageOffset]; delete query[pageLimit]`
deletePageKeys(query) ==
  LET Kept(p) == p.k \notin {pageOffset, pageLimit}
  IN  SeqFilter(Kept, query)

\* One pagination link: the collection URI without the page parameters,
\* then page[offset] and page[limit], joined by '&' when other parameters
\* remain and by '?' otherwise.
pagedLink(paged, queryLength, offset, limit) ==
  paged \o <<IF queryLength > 0 THEN "&" ELSE "?",
            encodedOffset, "=", ToString(offset),
            "&", encodedLimit, "=", ToString(limit)>>

\* A variant of hasNext that stops one page early.
hasNextEarly(count, limit, offset) == limit + offset < count - 1

\* `limit + (offset || 0) < count`
hasNext(count, limit, offset) == limit + offset < count

\* A variant of hasPrev for every page but the one at offset 0.
hasPrevPastStart(limit, offset) == offset > 0

\* `(offset || 0) >= limit`
hasPrev(limit, offset) == offset >= limit

\* The top-level links of a collection (index.js 842-880).
collectionLinks(map, type, query, count, limit, offset) ==
  LET wire == linkType(map, type)
      collection == fillFromObject(wire, <<>>, Nil, Nil, query)
      rest == deletePageKeys(query)
      paged == fillFromObject(wire, <<>>, Nil, Nil, rest)
      off == offsetOrZero(offset)
      link(o) == pagedLink(paged, Len(rest), o, limit)
  IN  IF count > limit
      THEN [NoLinks EXCEPT
              !.self = collection,
              !.first = link(0),
              !.last = link(Floor(count - 1, limit) * limit),
              !.next = IF hasNext(count, limit, off)
                       THEN link((Floor(off, limit) + 1) * limit) ELSE <<>>,
              !.prev = IF hasPrev(limit, off)
                       THEN link((Floor(off, limit) - 1) * limit) ELSE <<>>]
      ELSE [NoLinks EXCEPT !.self = collection]

\* A variant of collapsePrimary that looks at the records alone.
collapseOnOneRecord(meta, records) == Len(records) = 1

\* A variant of collapsePrimary without the test on the traversed link.
collapseOnTraversal(meta, records) ==
  \/ (meta.hasIds /\ Len(meta.ids) = 1)
  \/ (meta.method = "create" /\ Len(records) = 1)

\* Whether the primary data collapses to a single node (index.js 896-900).
collapsePrimary(meta, records) ==
  /\ \/ meta.originalType = Nil
     \/ ~IsLinkArray(meta.originalType, meta.relatedField)
  /\ \/ (meta.hasIds /\ Len(meta.ids) = 1)
     \/ (meta.method = "create" /\ Len(records) = 1)

\* A variant of locationHeader that fills in the identifiers of the route.
locationOfRoute(map, meta, records) ==
  fillFromObject(linkType(map, meta.type), meta.ids, Nil, Nil, <<>>)

\* The Location header of a create.
locationHeader(map, meta, records) ==
  LET IdOfRecord(r) == r.id
  IN  fillFromObject(linkType(map, meta.type), SeqMap(IdOfRecord, records),
                     Nil, Nil, <<>>)

\* What a show function yields: a returned or thrown error, or the payload
\* and the Location header.
Shown(err, thrown, payload, location) ==
  [err |-> err, thrown |-> thrown, payload |-> payload, location |-> location]

showRelationship(map, meta, records) ==
  LET wire == linkType(map, meta.originalType)
      field == outField(meta.relatedField)
      isArray == IsLinkArray(meta.originalType, meta.relatedField)
      identifier(r) == [type |-> linkType(map, meta.type),
                        id |-> idToString(r.id), self |-> <<>>]
      identifiers == SeqMap(identifier, records)
      links == [NoLinks EXCEPT
                  !.self = fillFromObject(wire, meta.originalIds,
                             reservedRelationships, field, <<>>),
                  !.related = fillFromObject(wire, meta.originalIds, field,
                                Nil, <<>>)]
  IN  IF severalOwners(meta.originalIds)
      THEN Shown(Err("BadRequestError",
                     "Can only show relationships for one record at a time."),
                 TRUE, NoPayload, <<>>)
      ELSE IF meta.method # "find"
      THEN Shown(NoError, FALSE, NoPayload, <<>>)
      ELSE Shown(NoError, FALSE,
                 IF isArray
                 THEN Payload("data", "many", identifiers, links, Undefined, <<>>)
                 ELSE IF identifiers # <<>>
                 THEN Payload("data", "one", <<identifiers[1]>>, links,
                              Undefined, <<>>)
                 ELSE Payload("data", "null", <<>>, links, Undefined, <<>>),
                 <<>>)

\* A variant of emptyRelatedShape that always shows an empty array.
emptyRelatedArray(meta) == "many"

\* The primary data of a related-field traversal that matched nothing.
emptyRelatedShape(meta) ==
  IF IsLinkArray(meta.originalType, meta.relatedField) THEN "many" ELSE "null"

\* A variant of respondsWithNothing for deletes alone.
deleteRespondsWithNothing(meta, updateModified) == meta.method = "delete"

\* `method === methods.delete ||
\*  (method === methods.update && !updateModified)`
respondsWithNothing(meta, updateModified) ==
  \/ meta.method = "delete"
  \/ (meta.method = "update" /\ ~updateModified)

\* A variant of noRecordsMatch that needs several identifiers.
noRecordsOfSeveral(meta, records) ==
  /\ meta.hasIds /\ Len(meta.ids) > 1 /\ meta.method = "find"
  /\ meta.relatedField = Nil /\ records = <<>>

\* `ids && ids.length && method === methods.find && !relatedField &&
\*  !records.length`
noRecordsMatch(meta, records) ==
  /\ meta.hasIds /\ meta.ids # <<>> /\ meta.method = "find"
  /\ meta.relatedField = Nil /\ records = <<>>

showResponse(map, meta, records, count, updateModified) ==
  LET isCollection == ~meta.hasIds /\ meta.method = "find"
      Node(r) == mapRecord(meta.type, r)
      nodes == SeqMap(Node, records)
      links0 == IF isCollection
                THEN collectionLinks(map, meta.type, meta.uriObject.query,
                                     count, meta.options.limit,
                                     meta.options.offset)
                ELSE NoLinks
      links1 == IF records # <<>> /\ meta.hasIds
                THEN [NoLinks EXCEPT
                        !.self = fillFromObject(linkType(map, meta.type),
                                   meta.ids, Nil, Nil, <<>>)]
                ELSE links0
      links2 == IF meta.relatedField # Nil
                THEN [NoLinks EXCEPT
                        !.self = fillFromObject(
                                   linkType(map, meta.originalType),
                                   meta.originalIds,
                                   outField(meta.relatedField), Nil, <<>>)]
                ELSE links1
      shape == IF records # <<>>
               THEN (IF collapsePrimary(meta, records) THEN "one" ELSE "many")
               ELSE IF meta.relatedField # Nil
               THEN emptyRelatedShape(meta)
               ELSE IF isCollection THEN "many" ELSE "absent"
      data == IF shape = "one" THEN <<nodes[1]>>
              ELSE IF shape = "many" THEN nodes ELSE <<>>
  IN  IF meta.relationship # Nil THEN showRelationship(map, meta, records)
      ELSE IF noRecordsMatch(meta, records)
      THEN Shown(Err("NotFoundError", "No records match the request."),
                 FALSE, NoPayload, <<>>)
      ELSE IF respondsWithNothing(meta, updateModified)
      THEN Shown(NoError, FALSE, NoPayload, <<>>)
      ELSE Shown(NoError, FALSE,
                 Payload("data", shape, data, links2,
                         IF isCollection THEN count ELSE Undefined, <<>>),
                 IF records # <<>> /\ meta.method = "create"
                 THEN locationHeader(map, meta, records) ELSE <<>>)

\* `if (!contextResponse.meta) contextResponse.meta = {}` and
\* `if (!contextResponse.meta.headers) contextResponse.meta.headers = {}`
addHeaders(keys) ==
  IF \E i \in 1..Len(keys) : keys[i].key = "meta"
  THEN [i \in 1..Len(keys) |->
          IF keys[i].key = "meta"
          THEN [keys[i] EXCEPT !.members = @ \cup {"headers"}]
          ELSE keys[i]]
  ELSE Append(keys, ErrorKey("meta", {"headers"}, FALSE))

\* A variant of omitted that leaves out every key whose value is empty.
omittedWhenEmpty(k) == k.falsy \/ k.members = {}

\* The keys showError does not copy: a meta of one member, a falsy payload.
omitted(k) ==
  \/ k.key = "meta" /\ Cardinality(k.members) = 1
  \/ k.key = "payload" /\ k.falsy

\* showError: one error object with the error's name and message and the
\* error's other keys.
showError(e) ==
  LET Copied(k) == ~omitted(k)
  IN  Payload("errors", "absent", <<>>, NoLinks, Undefined,
              <<[title |-> e.name, detail |-> e.message,
                 keys |-> SeqFilter(Copied, e.keys)]>>)

\* showIndex: the links of the root document, one per record type.
showIndex(map) ==
  Payload("index", "absent", <<>>, NoLinks, Undefined, <<>>)

-----------------------------------------------------------------------------
(* The requests the model sends.                                           *)

Req(method, uri, body) ==
  [method |-> method, uri |-> uri, body |-> body, accept |-> "none",
   matched |-> TRUE]

PageOffsets == {Nil, "0", "1", "2", "3", "4", "5", "x"}
PageLimits == {Nil, "0", "1", "2", "3", "4", "5", "-1", "x"}

PageParams(o, l) ==
  (IF o # Nil THEN <<Param(pageOffset, o)>> ELSE <<>>) \o
  (IF l # Nil THEN <<Param(pageLimit, l)>> ELSE <<>>)

Queries ==
  { PageParams(o, l) : o \in PageOffsets, l \in PageLimits } \cup
  { <<Param("sort", "name")>> \o PageParams(o, l) :
      o \in PageOffsets, l \in PageLimits } \cup
  { PageParams(o, l) \o <<Param("sort", "name")>> :
      o \in {Nil, "1"}, l \in {Nil, "1", "2"} }

OwnerIds == {<<"1">>, <<"2">>, <<"3">>, <<"404">>, <<"1", "2">>, <<"1", "3">>}
RouteIds == OwnerIds \cup {<<"1", "404">>, <<"abc">>, <<"2.0">>, <<"0x10">>}
RouteFields == {"spouse", "owned-pets", "name", "bogus"}

RootUri == Uri(Nil, <<>>, Nil, Nil, <<>>)
CollectionUris == { Uri(t, <<>>, Nil, Nil, <<>>) : t \in {"users", "animals", "foo"} }
PagedUris == { Uri("users", <<>>, Nil, Nil, q) : q \in Queries }
RecordUris ==
  { Uri("users", ids, Nil, Nil, <<>>) : ids \in RouteIds } \cup
  { Uri("animals", <<"1">>, Nil, Nil, <<>>), Uri("foo", <<"1">>, Nil, Nil, <<>>) }
RelatedUris ==
  { Uri("users", ids, f, Nil, <<>>) : ids \in OwnerIds, f \in RouteFields } \cup
  { Uri("animals", <<"1">>, "owner", Nil, <<>>),
    Uri("animals", <<"1">>, "keepers", Nil, <<>>),
    Uri("foo", <<"1">>, "spouse", Nil, <<>>) }
RelationshipUris ==
  { Uri("users", ids, reservedRelationships, f, <<>>) :
      ids \in OwnerIds, f \in RouteFields } \cup
  { Uri("animals", <<"1">>, reservedRelationships, "owner", <<>>),
    Uri("users", <<"1">>, "bogus", "spouse", <<>>),
    Uri("animals", <<"1">>, reservedRelationships, "keepers", <<>>),
    Uri("foo", <<"1">>, reservedRelationships, "spouse", <<>>) }

\* The values of the include parameter: the paths of each, by segment.
IncludeValues ==
  { <<<<"owner">>>>,
    <<<<"owner", "friends">>>>,
    <<<<"owner", "owned-pets", "owner", "spouse">>>>,
    <<<<"owner">>, <<"owner">>>>,
    <<<<"owner", "friends">>, <<"owner">>>>,
    <<<<"owner">>, <<"owner", "friends">>>>,
    <<<<"owner", "spouse", "friends">>, <<"owner", "friends", "spouse">>>>,
    <<<<"owner", "spouse", "friends", "owner">>,
      <<"owner", "spouse", "friends", "spouse">>>>,
    <<<<"">>>>,
    <<<<"owner", "">>>> }
IncludeUris ==
  { Uri("animals", <<"1">>, Nil, Nil, <<Param(reservedInclude, v)>>) :
      v \in IncludeValues } \cup
  { Uri("animals", <<>>, Nil, Nil,
        <<Param(reservedInclude, v), Param(pageLimit, "2")>>) :
      v \in IncludeValues }

Uris == {RootUri} \cup CollectionUris \cup RecordUris \cup RelatedUris
          \cup RelationshipUris

PayloadTypes == {Nil, "user", "users", "animals"}
PayloadIds == {NullId, Num("2"), Str("3"), Str("abc")}

Identifier(type, id) == Resource(type, id, <<>>)

Resources ==
  { Identifier(t, id) : t \in PayloadTypes, id \in PayloadIds } \cup
  { Resource("user", Num("2"), <<Rel("spouse", "one", <<Identifier("users", Num("3"))>>)>>),
    Resource("user", Num("2"), <<Rel("spouse", "one", <<Identifier("animals", Num("3"))>>)>>),
    Resource("user", Num("2"), <<Rel("spouse", "null", <<>>)>>),
    Resource("user", Num("2"), <<Rel("spouse", "absent", <<>>)>>),
    Resource("user", Num("2"), <<Rel("spouse", "many", <<>>)>>),
    Resource("user", Num("2"),
             <<Rel("owned-pets", "many", <<>>), Rel("spouse", "null", <<>>)>>),
    Resource("user", NullId,
             <<Rel("owned-pets", "many",
                   <<Identifier("animals", Str("2")), Identifier("animals", Num("3"))>>),
               Rel("spouse", "many", <<Identifier("users", Num("1"))>>)>>),
    Resource("users", Num("2"),
             <<Rel("owned-pets", "one", <<Identifier("animal", Num("3"))>>)>>) }

Bodies ==
  {InvalidJson, EmptyDoc, NullDoc} \cup
  { ObjectDoc(r) : r \in Resources } \cup
  { ArrayDoc(<<>>),
    ArrayDoc(<<Identifier("animals", Num("2"))>>),
    ArrayDoc(<<Identifier("animal", Str("3")), Identifier("animal", Num("2"))>>),
    ArrayDoc(<<Identifier("users", Num("3"))>>),
    ArrayDoc(<<Identifier("user", Num("3")), Identifier("user", NullId)>>),
    ArrayDoc(<<Identifier("user", Num("3")), Identifier("animal", NullId)>>) }

\* Bodies for the routes that are rejected whatever the body holds.
FewBodies ==
  {InvalidJson, EmptyDoc, ObjectDoc(Identifier("users", Num("2"))),
   ArrayDoc(<<Identifier("animals", Num("2"))>>)}

LinkUris(uris) == { u \in uris : inflectField(IF u.relationship # Nil
                                              THEN u.relationship
                                              ELSE u.relatedField)
                                   \in {"spouse", "ownedPets", "owner"} }

Requests ==
  { Req(m, u, NoBody) : m \in {"GET", "OPTIONS", "DELETE"}, u \in Uris } \cup
  { Req("GET", u, NoBody) : u \in PagedUris \cup IncludeUris } \cup
  { Req(m, u, b) : m \in {"POST", "PATCH"},
                   u \in {RootUri} \cup CollectionUris \cup RecordUris,
                   b \in Bodies } \cup
  { Req(m, u, b) : m \in {"POST", "PATCH"}, u \in RelatedUris,
                   b \in FewBodies } \cup
  { Req(m, u, b) : m \in {"POST", "PATCH", "DELETE"},
                   u \in LinkUris(RelationshipUris), b \in Bodies } \cup
  { Req(m, u, b) : m \in {"POST", "PATCH", "DELETE"},
                   u \in RelationshipUris \ LinkUris(RelationshipUris),
                   b \in FewBodies } \cup
  { Req("OPTIONS", Uri(t, <<>>, Nil, Nil, <<Param("sort", "name")>>), NoBody) :
      t \in {"users", "foo"} } \cup
  { Req("DELETE", Uri("users", <<"1">>, Nil, Nil, <<>>), EmptyDoc),
    [Req("GET", Uri("users", <<>>, Nil, Nil, <<>>), NoBody)
       EXCEPT !.accept = "parametrised"],
    [Req("GET", RootUri, NoBody) EXCEPT !.matched = FALSE] }

-----------------------------------------------------------------------------
(* The state machine of one request.                                       *)

NoRequest == [method |-> Nil, uri |-> RootUri, body |-> NoBody,
              accept |-> "none", matched |-> TRUE,
              meta |-> Descriptor(Nil, Nil, Nil, FALSE, <<>>, RootUri,
                                  [offset |-> Undefined, limit |-> Undefined])]

NoContext == NoRequest.meta

NoStoreResponse == [hasRecords |-> FALSE, records |-> <<>>,
                    count |-> Undefined, updateModified |-> FALSE]

NoResponse == [statusCode |-> 0, allow |-> <<>>, location |-> <<>>,
               payload |-> NoPayload]

\* A call handed to the store: adapter.find for the related-field lookup
\* (field names the field asked for), or the request's operation.
StoreCall(method, ctx, field) ==
  [method |-> method, type |-> ctx.type, hasIds |-> ctx.hasIds,
   ids |-> ctx.ids, field |-> field, payload |-> ctx.payload]

Init ==
  /\ pc = "idle"
  /\ inflectType \in InflectTypeMaps
  /\ request = NoRequest
  /\ contextRequest = NoContext
  /\ storeCalls = <<>>
  /\ contextResponse = NoStoreResponse
  /\ response = NoResponse
  /\ error = NoError
  /\ history = <<>>
  /\ suspended = <<>>

\* processRequest: initializeContext up to its suspension point.
ProcessRequest ==
  /\ pc = "idle"
  /\ \E req \in Requests :
       LET out == initializeContext(req)
           \* request.meta.method is the mapped method, never rewritten.
           meta == [out.ctx EXCEPT !.method = methodMap(req.method),
                                   !.originalMethod = Nil]
           withMeta == [method |-> req.method, uri |-> req.uri,
                        body |-> req.body, accept |-> req.accept,
                        matched |-> req.matched, meta |-> meta]
       IN  /\ request' = withMeta
           /\ contextRequest' = out.ctx
           /\ error' = IF out.kind = "options"
                       THEN Err("Error", "isMethodInvalid") ELSE out.err
           /\ response' = IF out.kind = "options"
                          THEN [response EXCEPT !.statusCode = 204,
                                                !.allow = allowHeader(req.uri)]
                          ELSE response
           /\ storeCalls' = IF out.kind = "lookup"
                            THEN Append(storeCalls,
                                        StoreCall("find", out.ctx, out.field))
                            ELSE storeCalls
           /\ pc' = CASE out.kind = "lookup" -> "lookup"
                      [] out.kind = "ready" -> "ready"
                      [] OTHER -> "failed"
  /\ history' = Append(history, "ProcessRequest")
  /\ UNCHANGED <<inflectType, suspended, contextResponse>>

\* The related-field lookup resolves: the `.then` callback.
LookupResolve ==
  /\ pc = "lookup"
  /\ LET call == storeCalls[Len(storeCalls)]
         records == FindByIds(call.type, call.ids)
     IN  /\ contextRequest' = resolveRelated(contextRequest, call.field, records)
         /\ request' = [request EXCEPT
                          !.meta = resolveRelated(request.meta, call.field, records)]
  /\ pc' = "ready"
  /\ history' = Append(history, "LookupResolve")
  /\ UNCHANGED <<inflectType, suspended, storeCalls, contextResponse, response, error>>

\* The related-field lookup rejects: the rejection is the request's error.
LookupReject ==
  /\ pc = "lookup"
  /\ error' = Err("Error", "The store failed.")
  /\ pc' = "failed"
  /\ history' = Append(history, "LookupReject")
  /\ UNCHANGED <<inflectType, suspended, request, contextRequest, storeCalls,
                 contextResponse, response>>

\* parsePayload, called when the request has a body.
ParsePayload ==
  /\ pc = "ready"
  /\ request.body.kind # "none"
  /\ LET result == parsePayload(inflectType, contextRequest, request.body)
     IN  /\ error' = result.err
         /\ contextRequest' =
              [afterParse(contextRequest, result) EXCEPT !.payload = result.out]
         /\ pc' = IF result.err = NoError THEN "parsed" ELSE "failed"
  /\ history' = Append(history, "ParsePayload")
  /\ UNCHANGED <<inflectType, suspended, request, storeCalls, contextResponse, response>>

\* What the store answers to the request's operation when it succeeds.
\* A created record gets the identifier of the payload, or a fresh one.
storeRecords(ctx) ==
  LET MutationId(m) == m.id
      created == [StoreRecord(ctx.type, 1) EXCEPT
                    !.id = IF ctx.payload[1].id = NullId
                           THEN IdOf(StoreSize + 1) ELSE ctx.payload[1].id]
  IN  CASE ctx.method = "find" /\ ctx.hasIds -> FindByIds(ctx.type, ctx.ids)
        [] ctx.method = "find" /\ ~ctx.hasIds ->
             FindPage(ctx.type, ctx.options.offset, ctx.options.limit)
        [] ctx.method = "create" -> <<created>>
        [] ctx.method = "update" ->
             FindByIds(ctx.type, SeqMap(MutationId, ctx.payload))
        [] OTHER -> FindByIds(ctx.type, ctx.ids)

\* Whether the store can carry the operation out at all.
storeAccepts(ctx) ==
  /\ ctx.type \in RecordTypeNames
  /\ ctx.method # Nil
  /\ ctx.method = "create" =>
       ctx.payload[1].id \notin {r.id : r \in Range(AllRecords(ctx.type))}
  /\ ctx.method \in {"update", "delete"} => storeRecords(ctx) # <<>>

storeError(ctx) ==
  IF ctx.type = Nil THEN Err("BadRequestError", "isTypeUnspecified")
  ELSE IF ctx.type \notin RecordTypeNames
  THEN Err("NotFoundError", "The requested type is not a valid type.")
  ELSE IF ctx.method = Nil THEN Err("MethodError", "The method is unrecognized.")
  ELSE IF ctx.method = "create" THEN Err("ConflictError", "The record already exists.")
  ELSE Err("NotFoundError", "The record does not exist.")

\* The errors the store may reject with: the error as it is, without a
\* message, or carrying keys of its own.
storeErrors(ctx) ==
  LET e == storeError(ctx)
  IN  IF ctx.type = Nil THEN {e}
      ELSE {e, [e EXCEPT !.message = ""],
            [e EXCEPT !.keys = <<ErrorKey("meta", {"info"}, FALSE)>>],
            [e EXCEPT !.keys = <<ErrorKey("source", {}, FALSE),
                                 ErrorKey("payload", {}, TRUE)>>]}

\* A variant of Dispatchable that does not wait for the lookup.
dispatchableDuringLookup ==
  \/ pc = "parsed"
  \/ pc \in {"ready", "lookup"} /\ request.body.kind = "none"

Dispatchable ==
  \/ pc = "parsed"
  \/ pc = "ready" /\ request.body.kind = "none"

\* The operation is handed to the store, which carries it out.
StoreResolve ==
  /\ Dispatchable
  /\ storeAccepts(contextRequest)
  /\ storeCalls' = Append(storeCalls,
                          StoreCall(contextRequest.method, contextRequest, Nil))
  /\ \E modified \in BOOLEAN, withRecords \in BOOLEAN :
       /\ contextRequest.method # "update" => modified = FALSE
       \* A delete may be answered without a payload.
       /\ contextRequest.method # "delete" => withRecords
       /\ contextResponse' =
            [hasRecords |-> withRecords,
             records |-> IF withRecords THEN storeRecords(contextRequest)
                         ELSE <<>>,
             count |-> IF contextRequest.method = "find" THEN StoreSize
                       ELSE Undefined,
             updateModified |-> modified]
  /\ pc' = "stored"
  /\ history' = Append(history, "StoreResolve")
  /\ UNCHANGED <<inflectType, suspended, request, contextRequest, response, error>>

\* The operation is handed to the store, which rejects it.
StoreReject ==
  /\ Dispatchable
  /\ ~storeAccepts(contextRequest)
  /\ storeCalls' = Append(storeCalls,
                          StoreCall(contextRequest.method, contextRequest, Nil))
  /\ \E e \in storeErrors(contextRequest) : error' = e
  /\ pc' = "failed"
  /\ history' = Append(history, "StoreReject")
  /\ UNCHANGED <<inflectType, suspended, request, contextRequest, contextResponse,
                 response>>

\* processResponse on the store's records: showResponse, and showError
\* when it returns an error.
ProcessResponse ==
  /\ pc = "stored"
  /\ LET shown == IF contextResponse.hasRecords
                  THEN showResponse(inflectType, request.meta,
                                    contextResponse.records,
                                    contextResponse.count,
                                    contextResponse.updateModified)
                  ELSE \* `if (!payload) return contextResponse`
                       Shown(NoError, FALSE, NoPayload, <<>>)
     IN  /\ error' = shown.err
         /\ response' =
              IF shown.err # NoError /\ ~shown.thrown
              THEN [response EXCEPT !.payload = showError(shown.err)]
              ELSE [response EXCEPT !.payload = shown.payload,
                                    !.location = shown.location]
         /\ pc' = IF shown.thrown THEN "failed" ELSE "done"
  /\ history' = Append(history, "ProcessResponse")
  /\ UNCHANGED <<inflectType, suspended, request, contextRequest, storeCalls,
                 contextResponse>>

\* processResponse on an error: the OPTIONS response is returned as it is,
\* an unspecified type shows the index, anything else is shown as an error.
ProcessError ==
  /\ pc = "failed"
  /\ response' =
       IF error.message = "isMethodInvalid" THEN response
       ELSE IF error.message = "isTypeUnspecified"
       THEN [response EXCEPT !.payload = showIndex(inflectType),
                             !.statusCode = 200]
       ELSE [response EXCEPT
               !.payload = showError([error EXCEPT !.keys = addHeaders(@)])]
  /\ pc' = "done"
  /\ history' = Append(history, "ProcessError")
  /\ UNCHANGED <<inflectType, suspended, request, contextRequest, storeCalls,
                 contextResponse, error>>

Next ==
  \/ ProcessRequest
  \/ LookupResolve
  \/ LookupReject
  \/ ParsePayload
  \/ StoreResolve
  \/ StoreReject
  \/ ProcessResponse
  \/ ProcessError

Spec == Init /\ [][Next]_vars

-----------------------------------------------------------------------------
(* Two requests in flight.  A request gives way where it waits for the     *)
(* store; what it holds then is local to its own call and callbacks.       *)

\* The state one request carries.
InFlight ==
  [pc |-> pc, request |-> request, contextRequest |-> contextRequest,
   storeCalls |-> storeCalls, contextResponse |-> contextResponse,
   response |-> response, error |-> error, history |-> history]

\* A request that has not been received yet.
NotStarted ==
  [pc |-> "idle", request |-> NoRequest, contextRequest |-> NoContext,
   storeCalls |-> <<>>, contextResponse |-> NoStoreResponse,
   response |-> NoResponse, error |-> NoError, history |-> <<>>]

\* Where a request waits for the store: for the related-field lookup, for
\* the operation to be handed over and for its answer to be processed.
SuspensionPoints == {"lookup", "ready", "parsed", "stored"}

\* A variant of resumed in which the descriptor is shared by the requests.
resumedWithSharedDescriptor(waiting) ==
  [waiting EXCEPT !.contextRequest = contextRequest]

\* What a request finds when it resumes: the locals its callbacks closed
\* over.
resumed(waiting) == waiting

\* The running request gives way: to a new request, or to the one that
\* waits.
Interleave ==
  /\ LET next == IF suspended = <<>> THEN NotStarted
                 ELSE resumed(suspended[1])
     IN  /\ \/ pc \in SuspensionPoints
            \/ pc = "done" /\ suspended # <<>>
         /\ next.pc # "done"
         /\ pc' = next.pc
         /\ request' = next.request
         /\ contextRequest' = next.contextRequest
         /\ storeCalls' = next.storeCalls
         /\ contextResponse' = next.contextResponse
         /\ response' = next.response
         /\ error' = next.error
         /\ history' = next.history
  /\ suspended' = <<InFlight>>
  /\ UNCHANGED inflectType

\* The requests sent two at a time.
ConcurrentRequests ==
  { Req("GET", Uri("users", <<"1", "3">>, "owned-pets", Nil, <<>>), NoBody),
    Req("GET", Uri("users", <<>>, Nil, Nil, PageParams("1", "1")), NoBody),
    Req("POST", Uri("users", <<>>, Nil, Nil, <<>>),
        ObjectDoc(Identifier("user", NullId))),
    Req("PATCH", Uri("users", <<"2">>, reservedRelationships, "spouse", <<>>),
        ObjectDoc(Identifier("users", Num("2")))),
    Req("DELETE", Uri("users", <<"404">>, Nil, Nil, <<>>), NoBody) }

Admitted ==
  \/ request = NoRequest
  \/ \E r \in ConcurrentRequests :
       /\ request.method = r.method
       /\ request.uri = r.uri
       /\ request.body = r.body
       /\ request.accept = r.accept
       /\ request.matched = r.matched

ConcurrentNext ==
  \/ Next /\ Admitted'
  \/ Interleave

ConcurrentSpec == Init /\ [][ConcurrentNext]_vars

-----------------------------------------------------------------------------
(* Properties of the primary data of a document.                           *)

\* The request ended with a data document that showResponse rendered.
Rendered ==
  /\ pc = "done"
  /\ history[Len(history)] = "ProcessResponse"
  /\ response.payload.kind = "data"
  /\ request.uri.relationship = Nil

\* A find by identifier that is not a related-field traversal.
NonTraversalFind ==
  /\ Rendered
  /\ request.meta.method = "find"
  /\ request.uri.relatedField = Nil
  /\ request.uri.ids # <<>>

\* A find through a related field.
TraversalFind ==
  /\ Rendered
  /\ request.meta.method = "find"
  /\ request.uri.relatedField # Nil

\* The distinct values the traversed link has on the owning records found.
RelatedSet ==
  UNION { Range(LinkValue(request.meta.originalType, r,
                          request.meta.relatedField)) :
            r \in Range(FindByIds(request.meta.originalType,
                                  request.meta.originalIds)) }

TraversedToMany ==
  IsLinkArray(request.meta.originalType, request.meta.relatedField)

\* The nodes of the document are the store's records, in the store's order.
NodesAreRecords ==
  /\ Len(response.payload.data) = Len(contextResponse.records)
  /\ \A i \in 1..Len(response.payload.data) :
       response.payload.data[i].id = idToString(contextResponse.records[i].id)

\* C1 as the specification words it: on a non-traversal find the primary
\* data is a single node when the route lists one identifier, and an array
\* with as many nodes as the route lists identifiers when it lists several.
FindDataLengthIsRouteLength ==
  NonTraversalFind =>
    LET n == Len(request.uri.ids)
    IN  /\ n = 1 => response.payload.shape = "one"
        /\ n >= 2 => /\ response.payload.shape = "many"
                     /\ Len(response.payload.data) = n

\* C1: on a non-traversal find that renders a document, the primary data is
\* a single node when the route lists one identifier; when it lists n >= 2
\* identifiers it is an array with one node per record the store returned,
\* between 1 and n nodes.
FindDataLengthIsRecordCount ==
  NonTraversalFind =>
    LET n == Len(request.uri.ids)
    IN  /\ n = 1 => /\ response.payload.shape = "one"
                    /\ Len(response.payload.data) = 1
        /\ n >= 2 => /\ response.payload.shape = "many"
                     /\ NodesAreRecords
                     /\ Len(response.payload.data) \in 1..n

\* Two identifiers were asked for and the store holds one of them.
FindWithMissingRecord ==
  /\ NonTraversalFind
  /\ Len(request.uri.ids) = 2
  /\ response.payload.shape = "many"
  /\ Len(response.payload.data) = 1

-----------------------------------------------------------------------------
(* Properties of the pagination links.                                     *)

\* A find on a collection route that rendered a document.
CollectionFind ==
  /\ Rendered
  /\ request.meta.method = "find"
  /\ request.uri.ids = <<>>

PageLinkNames == {"first", "last", "next", "prev"}

\* The offset the request asks for, an absent one counting as 0 (and so
\* does one that is not a number).
EffectiveOffset ==
  IF request.meta.options.offset \in Nat THEN request.meta.options.offset
  ELSE 0

\* C4: on a collection find the links hold first and last exactly when the
\* store's count exceeds the limit; then next is there exactly when
\* offset + limit < count and prev exactly when offset >= limit; without
\* first and last there is no next and no prev either.
PaginationLinksPresence ==
  CollectionFind =>
    LET links == response.payload.links
        count == contextResponse.count
        limit == request.meta.options.limit
        paged == count > limit
    IN  /\ links.first # <<>> <=> paged
        /\ links.last # <<>> <=> paged
        /\ links.next # <<>> <=> (paged /\ EffectiveOffset + limit < count)
        /\ links.prev # <<>> <=> (paged /\ EffectiveOffset >= limit)

\* A page in the middle of the collection: all four links are there.
MiddlePage ==
  /\ CollectionFind
  /\ EffectiveOffset > 0
  /\ \A name \in PageLinkNames : response.payload.links[name] # <<>>

\* The part of a link from its query string on.
RECURSIVE QueryOf(_)
QueryOf(link) ==
  IF link = <<>> \/ Head(link) \in {"?", "&"} THEN link
  ELSE QueryOf(Tail(link))

Malformed == Param("<malformed>", "<malformed>")

\* The parameters of a query string: '?' before the first, '&' before
\* every other one, and '=' between a key and its value.
RECURSIVE ParamsOf(_, _)
ParamsOf(tokens, separator) ==
  IF tokens = <<>> THEN <<>>
  ELSE IF Len(tokens) >= 4 /\ tokens[1] = separator /\ tokens[3] = "="
  THEN <<Param(tokens[2], tokens[4])>>
         \o ParamsOf(SubSeq(tokens, 5, Len(tokens)), "&")
  ELSE <<Malformed>>

\* How many parameters of a query string have the key.
Occurrences(params, key) ==
  Cardinality({ i \in 1..Len(params) : params[i].k = key })

\* The request's query parameters other than the two page parameters.
OtherParams ==
  LET Other(p) == p.k \notin {pageOffset, pageLimit}
  IN  SeqFilter(Other, request.uri.query)

\* C5: every pagination link is a well-formed URI whose query string holds
\* the request's other parameters unchanged and in their order, followed by
\* exactly one page[offset] and exactly one page[limit]: '?' opens the
\* query string and '&' joins the parameters, whether or not the request
\* carried page parameters.
PaginationLinksQuery ==
  CollectionFind =>
    \A name \in PageLinkNames :
      LET link == response.payload.links[name]
          params == ParamsOf(QueryOf(link), "?")
          n == Len(params)
      IN  link # <<>> =>
            /\ \A i \in 1..n : params[i] # Malformed
            /\ Occurrences(params, encodedOffset) = 1
            /\ Occurrences(params, encodedLimit) = 1
            /\ n = Len(OtherParams) + 2
            /\ \A i \in 1..Len(OtherParams) :
                 /\ params[i].k = encodeURIComponent(OtherParams[i].k)
                 /\ params[i].v = OtherParams[i].v
            /\ params[n - 1].k = encodedOffset
            /\ params[n].k = encodedLimit

\* A page asked for with a sort parameter and both page parameters.
PagedWithOtherParams ==
  /\ CollectionFind
  /\ OtherParams # <<>>
  /\ Len(request.uri.query) = Len(OtherParams) + 2
  /\ response.payload.links.next # <<>>
  /\ response.payload.links.prev # <<>>

-----------------------------------------------------------------------------
(* Properties of the relationship-entity routes.                           *)

\* The route is /type/ids/relationships/field.
RelationshipRoute ==
  /\ history # <<>>
  /\ request.uri.relationship # Nil
  /\ request.uri.relatedField = reservedRelationships

\* The last step taken was parsePayload.
JustParsed ==
  /\ history # <<>>
  /\ history[Len(history)] = "ParsePayload"

\* The operation key a verb stands for on a relationship-entity route.
VerbOperation ==
  CASE request.method = "POST" -> "push"
    [] request.method = "DELETE" -> "pull"
    [] OTHER -> "replace"

\* The identifier the route names first, as the serializer reads it.
RouteOwnerId == castId(Str(request.uri.ids[1]))

RelationshipUpdateShape ==
  /\ (RelationshipRoute /\ pc = "parsed") =>
       LET updates == contextRequest.payload
           items == request.body.items
           toMany == IsLinkArray(request.meta.originalType,
                                 request.meta.relatedField)
       IN  /\ Len(request.uri.ids) = 1
           /\ Len(updates) = 1
           /\ updates[1].id = RouteOwnerId
           /\ Cardinality(updates[1].keys) = 1
           /\ Len(updates[1].rels) = 1
           /\ updates[1].rels[1].field = inflectField(request.uri.relationship)
           /\ updates[1].rels[1].shape = (IF toMany THEN "many" ELSE "one")
           /\ updates[1].rels[1].ids =
                [i \in 1..Len(items) |-> castId(items[i].id)]
           /\ ~toMany => Len(items) = 1
           /\ contextRequest.type = inflectIn(request.uri.type)
           /\ ~contextRequest.hasIds
           /\ contextRequest.ids = <<>>
  /\ (RelationshipRoute /\ request.body.kind # "none"
        /\ history[Len(history)] \in {"StoreResolve", "StoreReject"}) =>
       LET call == storeCalls[Len(storeCalls)]
       IN  /\ call.method = "update"
           /\ call.type = inflectIn(request.uri.type)
           /\ ~call.hasIds
           /\ call.payload = contextRequest.payload
           /\ Len(call.payload) = 1
           /\ call.payload[1].id = RouteOwnerId

\* A to-one relationship replaced by an identifier sent as the string "3",
\* handed to the store as the number 3.
ToOneReplaced ==
  /\ RelationshipRoute
  /\ pc = "stored"
  /\ request.method = "PATCH"
  /\ request.body.items = <<Identifier("users", Str("3"))>>
  /\ storeCalls[Len(storeCalls)].payload =
       <<Mutation(RouteOwnerId, {"replace"},
                  <<Parsed("spouse", "one", <<Num("3")>>)>>)>>

-----------------------------------------------------------------------------
(* Properties of parseUpdate and parseCreate.                              *)

\* parsePayload has just run on an update that is not a relationship's.
UpdateParsed ==
  /\ JustParsed
  /\ contextRequest.method = "update"
  /\ request.uri.relationship = Nil

\* The identifiers of the route, as the serializer reads them.
RouteIdSet == { castId(Str(request.uri.ids[i])) : i \in 1..Len(request.uri.ids) }

\* The payload's data is one object.
SingleData ==
  /\ request.body.kind = "doc"
  /\ request.body.hasData
  /\ ~request.body.isArray
  /\ ~request.body.isNull

CreateParsed ==
  /\ JustParsed
  /\ contextRequest.method = "create"

\* C9: a create whose route has an identifier or a related field fails
\* with a method error whatever the parsed payload holds, the empty
\* object included, and hands the store no record.
CreateOnRecordRoute ==
  /\ (CreateParsed
        /\ (request.uri.ids # <<>> \/ request.uri.relatedField # Nil)) =>
       /\ pc = "failed"
       /\ contextRequest.payload = <<>>
       /\ request.body.kind = "doc" => error.name = "MethodError"
  /\ (history # <<>> /\ request.method = "POST"
        /\ request.body.kind # "none"
        /\ (request.uri.ids # <<>> \/ request.uri.relatedField # Nil)) =>
       \A i \in 1..Len(storeCalls) : storeCalls[i].method # "create"

\* A create of {} on a record's route was refused as a method error.
EmptyCreateOnRecordRoute ==
  /\ CreateParsed
  /\ request.uri.ids # <<>>
  /\ request.uri.relatedField = Nil
  /\ request.body = EmptyDoc
  /\ error.name = "MethodError"

\* C10: a create on a collection route whose parsed payload has no data
\* member, or whose data has no type, fails as a bad request and hands the
\* store no record.
CreateWithoutDataIsBadRequest ==
  (CreateParsed /\ request.uri.type # Nil
     /\ request.uri.ids = <<>> /\ request.uri.relatedField = Nil
     /\ request.body.kind = "doc"
     /\ (~request.body.hasData \/ (SingleData /\ ~HasType(request.body.items[1])))) =>
    /\ pc = "failed"
    /\ error.name = "BadRequestError"
    /\ contextRequest.payload = <<>>

-----------------------------------------------------------------------------
(* Properties of the relationships of a payload.                           *)

\* parsePayload has just run on a create or an update whose resource object
\* passed the checks that come before its relationships are read.
ReachedRelationships ==
  /\ JustParsed
  /\ request.uri.relationship = Nil
  /\ request.uri.relatedField = Nil
  /\ SingleData
  /\ HasType(request.body.items[1])
  /\ contextRequest.type \in RecordTypeNames
  /\ payloadType(inflectType, request.body.items[1].type) = contextRequest.type
  /\ \/ contextRequest.method = "create" /\ request.uri.ids = <<>>
     \/ /\ contextRequest.method = "update"
        /\ Len(request.uri.ids) = 1
        /\ castId(request.body.items[1].id) \in RouteIdSet

\* The member names a link field of the type and has a data member.
DeclaredLink(type, rel) ==
  /\ inflectField(rel.field) \in FieldNames(type)
  /\ FieldDef(type, inflectField(rel.field)).link # Nil
  /\ rel.shape # "absent"

\* Some identifier object of the member is of another type than the
\* field's link type as the wire spells it.
ForeignIdentifier(type, rel) ==
  \E i \in 1..Len(rel.items) :
    rel.items[i].type #
      wireLinkType(inflectType, FieldDef(type, inflectField(rel.field)).link)

\* C11 as the specification words it: for the members of a payload's relationships that name link fields
\* and have data: an identifier object of another type than the field's
\* link type fails the parse with a conflict and no record or update;
\* otherwise the parsed value is null for null data, one coerced identifier
\* for a to-one field and the coerced identifiers in payload order for a
\* to-many field.
RelationshipValuesByCardinality ==
  (ReachedRelationships
     /\ \A i \in 1..Len(request.body.items[1].rels) :
          DeclaredLink(contextRequest.type, request.body.items[1].rels[i])) =>
    LET type == contextRequest.type
        rels == request.body.items[1].rels
        coerced(rel) == [i \in 1..Len(rel.items) |-> castId(rel.items[i].id)]
    IN  IF \E i \in 1..Len(rels) : ForeignIdentifier(type, rels[i])
        THEN /\ pc = "failed"
             /\ error.name = "ConflictError"
             /\ contextRequest.payload = <<>>
        ELSE /\ pc = "parsed"
             /\ Len(contextRequest.payload) = 1
             /\ Len(contextRequest.payload[1].rels) = Len(rels)
             /\ \A i \in 1..Len(rels) :
                  LET value == contextRequest.payload[1].rels[i]
                      toMany == IsLinkArray(type, inflectField(rels[i].field))
                  IN  /\ value.field = inflectField(rels[i].field)
                      /\ rels[i].shape = "null" => value.shape = "null"
                      /\ (rels[i].shape # "null" /\ ~toMany) =>
                           /\ value.shape = "one"
                           /\ Len(value.ids) = 1
                           /\ value.ids[1] = coerced(rels[i])[1]
                      /\ (rels[i].shape # "null" /\ toMany) =>
                           /\ value.shape = "many"
                           /\ value.ids = coerced(rels[i])

\* C11: for the members of a payload's relationships that name link fields
\* and have data: an identifier object of another type than the field's
\* link type fails the parse with a conflict and no record or update;
\* otherwise the parsed value is null for null data, the coerced
\* identifiers in payload order for a to-many field, and for a to-one field
\* the first coerced identifier, or undefined when the data is an empty
\* array; it is never an array for a to-one field and never a single
\* identifier for a to-many field.
RelationshipValuesWithEmptyToOne ==
  (ReachedRelationships
     /\ \A i \in 1..Len(request.body.items[1].rels) :
          DeclaredLink(contextRequest.type, request.body.items[1].rels[i])) =>
    LET type == contextRequest.type
        rels == request.body.items[1].rels
        coerced(rel) == [i \in 1..Len(rel.items) |-> castId(rel.items[i].id)]
    IN  IF \E i \in 1..Len(rels) : ForeignIdentifier(type, rels[i])
        THEN /\ pc = "failed"
             /\ error.name = "ConflictError"
             /\ contextRequest.payload = <<>>
        ELSE /\ pc = "parsed"
             /\ Len(contextRequest.payload) = 1
             /\ Len(contextRequest.payload[1].rels) = Len(rels)
             /\ \A i \in 1..Len(rels) :
                  LET value == contextRequest.payload[1].rels[i]
                      toMany == IsLinkArray(type, inflectField(rels[i].field))
                  IN  /\ value.field = inflectField(rels[i].field)
                      /\ toMany => value.shape \in {"null", "many"}
                      /\ ~toMany => value.shape \in {"null", "one", "undefined"}
                      /\ rels[i].shape = "null" <=> value.shape = "null"
                      /\ value.shape = "undefined" <=>
                           (~toMany /\ rels[i].shape # "null"
                              /\ rels[i].items = <<>>)
                      /\ value.shape = "one" =>
                           value.ids = <<coerced(rels[i])[1]>>
                      /\ value.shape = "many" => value.ids = coerced(rels[i])

\* A create whose to-many member holds the ids "2" and 3 and whose to-one
\* member holds a one-element array was parsed to the list 2, 3 and the
\* scalar 1.
RelationshipsParsedBothWays ==
  /\ ReachedRelationships
  /\ pc = "parsed"
  /\ contextRequest.method = "create"
  /\ contextRequest.payload[1].rels =
       <<Parsed("ownedPets", "many", <<Num("2"), Num("3")>>),
         Parsed("spouse", "one", <<Num("1")>>)>>

-----------------------------------------------------------------------------
(* Properties of the responses without primary data.                       *)

\* The store answered the request's operation and processResponse ran.
Answered ==
  /\ pc = "done"
  /\ history[Len(history)] = "ProcessResponse"

\* C12: a find by identifier that is neither a related-field nor a
\* relationship route and for which the store returns no record ends in a
\* not-found error; its document has one error whose title is the error's
\* kind and whose detail is not empty, and no primary data.
FindWithoutRecordsIsNotFound ==
  (Answered /\ request.method = "GET"
     /\ request.uri.ids # <<>>
     /\ request.uri.relatedField = Nil /\ request.uri.relationship = Nil
     /\ contextResponse.records = <<>>) =>
    /\ error.name = "NotFoundError"
    /\ response.payload.kind = "errors"
    /\ Len(response.payload.errors) = 1
    /\ response.payload.errors[1].title = "NotFoundError"
    /\ response.payload.errors[1].detail \notin {"", Nil}
    /\ response.payload.shape = "absent"
    /\ response.payload.data = <<>>

\* GET /users/404 was answered with the not-found document.
MissingRecordShown ==
  /\ Answered
  /\ request.method = "GET"
  /\ request.uri.ids = <<"404">>
  /\ request.uri.relatedField = Nil
  /\ response.payload.kind = "errors"
  /\ response.payload.errors[1].title = "NotFoundError"

\* C13: a delete, an update the store reports as without modification and
\* every request other than a read on a relationship-entity route are
\* answered without a payload; an update with a modification on a record
\* route is answered with the records as primary data.
NoBodyWithoutModification ==
  /\ (Answered
        /\ \/ request.method = "DELETE"
           \/ request.method = "PATCH" /\ ~contextResponse.updateModified
           \/ RelationshipRoute /\ request.method # "GET") =>
       /\ response.payload = NoPayload
       /\ error = NoError
  /\ (Answered /\ request.method = "PATCH"
        /\ request.uri.relationship = Nil
        /\ contextResponse.updateModified) =>
       /\ response.payload.kind = "data"
       /\ response.payload.shape = "one"
       /\ response.payload.data[1].id = idToString(RouteOwnerId)

\* A PATCH of a record that the store reports as unmodified was answered
\* without a payload.
UnmodifiedUpdateAnswered ==
  /\ Answered
  /\ request.method = "PATCH"
  /\ request.uri.relationship = Nil
  /\ ~contextResponse.updateModified
  /\ response.payload = NoPayload

-----------------------------------------------------------------------------
(* Properties of the Allow header.                                         *)

\* How many of type, ids, relatedField and relationship the route has.
PathSegments ==
  Cardinality({ k \in {"type", "relatedField", "relationship"} :
                  request.uri[k] # Nil })
    + (IF request.uri.ids # <<>> THEN 1 ELSE 0)

\* The methods allowed by the number of path segments.
AllowTable ==
  [n \in 0..4 |->
     CASE n = 0 -> <<"GET">>
       [] n = 1 -> <<"GET", "POST">>
       [] n = 2 -> <<"GET", "PATCH", "DELETE">>
       [] n = 3 -> <<"GET">>
       [] n = 4 -> <<"GET", "POST", "PATCH", "DELETE">>]

\* An OPTIONS request on the root or on a registered type, with an Accept
\* header the serializer takes and a URI the template matches.
OptionsProbe ==
  /\ history # <<>>
  /\ request.method = "OPTIONS"
  /\ request.accept = "none"
  /\ request.matched
  /\ request.uri.type = Nil \/ inflectIn(request.uri.type) \in RecordTypeNames

\* C14: an OPTIONS request on the root or on a registered type ends
\* without a store call, with status 204, no payload and the Allow header
\* of the table entry for its number of path segments, whatever the query.
OptionsAnsweredFromTable ==
  OptionsProbe =>
    /\ storeCalls = <<>>
    /\ pc \in {"failed", "done"}
    /\ response.statusCode = 204
    /\ response.payload = NoPayload
    /\ response.allow = AllowTable[PathSegments]

\* OPTIONS on a collection with a query was answered as a collection.
OptionsOnCollectionWithQuery ==
  /\ OptionsProbe
  /\ pc = "done"
  /\ request.uri.query # <<>>
  /\ PathSegments = 1
  /\ response.allow = <<"GET", "POST">>

\* C15: a request that failed with a method error is answered with the
\* Allow header of the table entry for its number of path segments.
MethodErrorCarriesAllow ==
  (pc = "done" /\ error.name = "MethodError") =>
    response.allow = AllowTable[PathSegments]

-----------------------------------------------------------------------------
(* Properties of a relationship route of several owners.                   *)

\* A request other than OPTIONS on a relationship-entity route whose
\* identifier segment lists more than one owner.
SeveralOwnersRelationship ==
  /\ RelationshipRoute
  /\ Len(request.uri.ids) > 1
  /\ request.method # "OPTIONS"

-----------------------------------------------------------------------------
(* Properties of a route whose type is not registered.                     *)

\* An answered request whose type segment names no registered type.
UnregisteredTypeAnswered ==
  /\ pc = "done"
  /\ request.matched
  /\ request.accept = "none"
  /\ request.uri.type # Nil
  /\ inflectIn(request.uri.type) \notin RecordTypeNames

\* C17: a request on a type that is not registered is answered as not
\* found, whatever its method and route shape, and never with the Allow
\* header and status 204 of OPTIONS.
UnregisteredTypeIsNotFound ==
  UnregisteredTypeAnswered =>
    /\ error.name = "NotFoundError"
    /\ response.payload.kind = "errors"
    /\ response.statusCode # 204
    /\ response.allow = <<>>

-----------------------------------------------------------------------------
(* Properties of rendering a record and parsing it back.                   *)

\* The value parseCreate should give a link field of a record: null, the
\* identifier, or the identifiers in order.
FieldOfRecord(type, record, field) ==
  LET ids == LinkValue(type, record, field)
  IN  IF IsLinkArray(type, field) THEN Parsed(field, "many", ids)
      ELSE IF ids[1] = NullId THEN Parsed(field, "null", <<>>)
      ELSE Parsed(field, "one", ids)

\* parseCreate on the collection route of a node's type, fed the node's
\* type and relationships.
ParsedBack(node) ==
  LET route == Uri(node.type, <<>>, Nil, Nil, <<>>)
      body == ObjectDoc(Resource(node.type, NullId, node.rels))
  IN  parseCreate(inflectType, initializeContext(Req("POST", route, body)).ctx,
                  body)

\* C18: every node rendered for a record of a registered type, fed back
\* through parseCreate on the collection route of its type, parses without
\* error into one record whose link fields equal those of the original
\* record after identifier coercion.
RenderedNodeParsesBack ==
  (Rendered /\ request.method = "GET") =>
    \A i \in 1..Len(response.payload.data) :
      LET node == response.payload.data[i]
          type == request.meta.type
          record == FindByIds(type, <<castId(Str(node.id))>>)[1]
          back == ParsedBack(node)
      IN  /\ back.err = NoError
          /\ Len(back.out) = 1
          /\ back.out[1].rels =
               [j \in 1..Len(LinkFieldSeq(type)) |->
                  FieldOfRecord(type, record, LinkFieldSeq(type)[j])]

-----------------------------------------------------------------------------
(* Properties of the Location header.                                      *)

\* A create the store answered with one record has been shown.
CreateShown ==
  /\ Answered
  /\ contextRequest.method = "create"
  /\ error = NoError
  /\ Len(contextResponse.records) = 1

\* C19: the response to a create that returned one record carries a
\* Location header made of the created type, written as the inflectType
\* option has it, and the created identifier; its last segment is the id
\* of the single rendered node and denotes the identifier of the record.
LocationOfCreated ==
  CreateShown =>
    LET type == request.meta.type
        record == contextResponse.records[1]
        location == response.location
    IN  /\ response.payload.kind = "data"
        /\ response.payload.shape = "one"
        /\ Len(response.payload.data) = 1
        /\ Len(location) = 4
        /\ location[1] = "/" /\ location[3] = "/"
        /\ location[2] = (IF InflectTypeOf(inflectType, type)
                          THEN pluralize(type) ELSE type)
        /\ inflectIn(location[2]) = type
        /\ location[4] = response.payload.data[1].id
        /\ castId(Str(location[4])) = castId(record.id)

\* A create without identifier was answered with the Location of the
\* identifier the store gave the record.
CreatedWithFreshId ==
  /\ CreateShown
  /\ request.body.items[1].id = NullId
  /\ response.location = <<"/", "users", "/", ToString(StoreSize + 1)>>
  /\ response.payload.data[1].id = ToString(StoreSize + 1)

-----------------------------------------------------------------------------
(* Properties of identifier coercion.                                      *)

\* The text of the number a finite decimal numeral stands for.
DecimalText(s) ==
  CASE s \in {"1", "2", "3", "4", "5", "404"} -> s
    [] s = "2.0" -> "2"
    [] OTHER -> Nil

\* The identifier a wire identifier denotes: the number of a decimal
\* numeral, and itself otherwise.
Denoted(id) ==
  IF id.k = "str" /\ DecimalText(id.s) # Nil THEN Num(DecimalText(id.s))
  ELSE id

\* The identifiers of the request: the route's segments and the payload's.
WireIds ==
  { Str(request.uri.ids[i]) : i \in 1..Len(request.uri.ids) } \cup
  { request.body.items[i].id : i \in 1..Len(request.body.items) }

\* C20: castId gives a number and its decimal numeral the same number,
\* leaves every other identifier as it is, and is idempotent; the
\* descriptor's identifiers are the route's coerced that way, and matchId
\* accepts a payload identifier for a route segment exactly when both
\* denote the same identifier.
IdentifierCoercion ==
  history # <<>> =>
    /\ \A id \in WireIds :
         /\ castId(id) = Denoted(id)
         /\ castId(castId(id)) = castId(id)
    /\ (pc \in {"ready", "parsed", "stored"} /\ request.uri.relatedField = Nil) =>
         contextRequest.ids =
           [i \in 1..Len(request.uri.ids) |-> Denoted(Str(request.uri.ids[i]))]
    /\ \A i \in 1..Len(request.body.items), j \in 1..Len(request.uri.ids) :
         matchId(request.body.items[i], castId(Str(request.uri.ids[j])))
           <=> Denoted(request.body.items[i].id) = Denoted(Str(request.uri.ids[j]))

-----------------------------------------------------------------------------
(* Properties of the error document.                                       *)

\* An error other than the OPTIONS response and the index has been shown.
ErrorShown ==
  /\ pc = "done"
  /\ error # NoError
  /\ error.message \notin {"isMethodInvalid", "isTypeUnspecified"}

\* The names of the keys of the shown error object besides title and detail.
ShownKeys ==
  { response.payload.errors[1].keys[i].key :
      i \in 1..Len(response.payload.errors[1].keys) }

\* Whether the error carries a key of that name.
ErrorHas(key) == \E i \in 1..Len(error.keys) : error.keys[i].key = key

\* The key of that name the error carries.
ErrorKeyOf(key) ==
  error.keys[CHOOSE i \in 1..Len(error.keys) : error.keys[i].key = key]

\* C21 as stated: an error is shown as one error object with the error's
\* name and message, and a key of the error is copied exactly when its
\* value is not empty.
ErrorKeysCopiedUnlessEmpty ==
  ErrorShown =>
    /\ response.payload.kind = "errors"
    /\ Len(response.payload.errors) = 1
    /\ response.payload.errors[1].title = error.name
    /\ response.payload.errors[1].detail = error.message
    /\ \A i \in 1..Len(error.keys) :
         error.keys[i].key \in ShownKeys
           <=> ~(error.keys[i].falsy \/ error.keys[i].members = {})

\* C21: an error is shown as one error object with the error's name and
\* message; every key of the error is copied, empty or not, except a
\* payload that is falsy, and the meta object is copied, with its headers,
\* exactly when the error came with a meta of its own.
ErrorKeysCopiedButMetaAndPayload ==
  ErrorShown =>
    /\ response.payload.kind = "errors"
    /\ Len(response.payload.errors) = 1
    /\ response.payload.errors[1].title = error.name
    /\ response.payload.errors[1].detail = error.message
    /\ \A i \in 1..Len(error.keys) :
         error.keys[i].key \in ShownKeys
           <=> ~(error.keys[i].key = "payload" /\ error.keys[i].falsy)
    /\ "meta" \in ShownKeys <=> ErrorHas("meta")
    /\ ShownKeys \subseteq {"meta"} \cup { error.keys[i].key : i \in 1..Len(error.keys) }

\* A store error carrying an empty object and a null payload was shown with
\* the empty object and without the payload.
EmptyKeyShown ==
  /\ ErrorShown
  /\ ErrorHas("source")
  /\ ErrorKeyOf("source").members = {}
  /\ ErrorHas("payload")
  /\ ShownKeys = {"source"}

\* A store error without a message was shown.
ErrorWithoutMessageShown ==
  /\ ErrorShown
  /\ error.message = ""
  /\ response.payload.errors[1].detail = ""

-----------------------------------------------------------------------------
(* Properties of the parsed page options.                                  *)

\* initializeContext has returned a descriptor, its queries attached.
QueriesAttached ==
  \/ pc \in {"ready", "lookup", "parsed", "stored"}
  \/ "StoreResolve" \in Range(history)

\* C22: once the queries are attached, options.limit is an integer from 1
\* to maxLimit and options.offset is absent or a non-negative integer,
\* whatever page[limit] and page[offset] were.
PageOptionsAreIntegers ==
  QueriesAttached =>
    /\ contextRequest.options.limit \in 1..maxLimit
    /\ \/ contextRequest.options.offset = Undefined
       \/ contextRequest.options.offset \in Nat

-----------------------------------------------------------------------------
(* Properties of the descriptor's related field.                           *)

\* The field the request's route names in its related-field or
\* relationship slot, as the registry spells it.
NamedField ==
  inflectField(IF request.uri.relationship # Nil THEN request.uri.relationship
               ELSE request.uri.relatedField)

\* Whether the named field is a link of the routed type that a route may
\* name.
NamedFieldIsLink ==
  /\ inflectIn(request.uri.type) \in RecordTypeNames
  /\ NamedField \in FieldNames(inflectIn(request.uri.type))
  /\ FieldDef(inflectIn(request.uri.type), NamedField).link # Nil
  /\ ~FieldDef(inflectIn(request.uri.type), NamedField).inverse

\* A request the router validates the field of: its route names a field
\* and has passed the Accept check, the template and the relationship
\* marker.
FieldRouted ==
  /\ history # <<>>
  /\ request.uri.relatedField # Nil
  /\ request.accept = "none"
  /\ request.matched
  /\ request.uri.relationship # Nil =>
       request.uri.relatedField = reservedRelationships

\* The descriptor's relatedField is set only to a link of the original
\* type that is no denormalized inverse.
RelatedFieldIsLink ==
  contextRequest.relatedField # Nil =>
    /\ contextRequest.originalType = inflectIn(request.uri.type)
    /\ contextRequest.relatedField = NamedField
    /\ NamedFieldIsLink

\* The route was refused as not found, no field set, no store call made.
RefusedAsNotFound ==
  /\ pc \in {"failed", "done"}
  /\ error.name = "NotFoundError"
  /\ contextRequest.relatedField = Nil
  /\ storeCalls = <<>>

-----------------------------------------------------------------------------
(* Properties of the related-field lookup.                                 *)

\* The related-field lookup has just resolved.
JustResolved ==
  /\ history # <<>>
  /\ history[Len(history)] = "LookupResolve"

\* The records the lookup found, and what they hold in the routed field,
\* record after record.
LookedUp == FindByIds(inflectIn(request.uri.type), routeIds(request.uri))
HeldInField == FlattenLinks(inflectIn(request.uri.type), LookedUp, NamedField)

\* The place of the first occurrence of a value in a sequence.
FirstAt(s, v) == CHOOSE i \in 1..Len(s) : s[i] = v /\ \A j \in 1..(i - 1) : s[j] # v

\* C24: when the lookup resolves, the descriptor's type is the link's type
\* and its ids are the identifiers the looked-up records reference through
\* the field, each once, in order of first occurrence, and nothing else;
\* originalType and originalIds are the routed type and identifiers.
ResolvedIdsAreReferenced ==
  JustResolved =>
    LET type == inflectIn(request.uri.type)
        ids == contextRequest.ids
    IN  /\ contextRequest.type = FieldDef(type, NamedField).link
        /\ contextRequest.originalType = type
        /\ contextRequest.originalIds = routeIds(request.uri)
        /\ Range(ids) = Range(HeldInField) \ {NullId}
        /\ \A i, j \in 1..Len(ids) : i # j => ids[i] # ids[j]
        /\ \A i, j \in 1..Len(ids) :
             i < j => FirstAt(HeldInField, ids[i]) < FirstAt(HeldInField, ids[j])

-----------------------------------------------------------------------------
(* Properties of the order of the store calls.                             *)

\* The places in the history where a step of that name was taken.
StepsOf(name) == { i \in 1..Len(history) : history[i] = name }

\* The store calls that are related-field lookups, and the primary ones.
LookupCalls == { i \in 1..Len(storeCalls) : storeCalls[i].field # Nil }
PrimaryCalls == { i \in 1..Len(storeCalls) : storeCalls[i].field = Nil }

\* C25: the primary operation is handed to the store only after the
\* related-field lookup, if there is one, has resolved; a failed lookup is
\* the request's error as it came, leaves the descriptor's type and ids as
\* routed and is followed by no store call; no call is made twice.
LookupBeforeOperation ==
  /\ Cardinality(LookupCalls) <= 1
  /\ Cardinality(PrimaryCalls) <= 1
  /\ \A i \in LookupCalls : \A j \in PrimaryCalls : i < j
  /\ (LookupCalls # {} /\ PrimaryCalls # {}) =>
       \E r \in StepsOf("LookupResolve") :
         \A d \in StepsOf("StoreResolve") \cup StepsOf("StoreReject") : r < d
  /\ pc = "lookup" => PrimaryCalls = {}
  /\ StepsOf("LookupReject") # {} =>
       /\ PrimaryCalls = {}
       /\ Len(storeCalls) = 1
       /\ StepsOf("LookupResolve") = {}
       /\ error = Err("Error", "The store failed.")
       /\ contextRequest.type = inflectIn(request.uri.type)
       /\ contextRequest.ids = routeIds(request.uri)
       /\ contextRequest.relatedField = Nil
       /\ contextRequest.originalType = Nil
       /\ pc = "done" =>
            /\ response.payload.kind = "errors"
            /\ response.payload.errors[1].title = "Error"
            /\ response.payload.errors[1].detail = "The store failed."

\* A failed lookup was shown as the store's error, the store called once.
FailedLookupShown ==
  /\ pc = "done"
  /\ history = <<"ProcessRequest", "LookupReject", "ProcessError">>
  /\ Len(storeCalls) = 1
  /\ response.payload.errors[1].title = "Error"

-----------------------------------------------------------------------------
(* Properties of requests in flight together.                              *)

\* The descriptor a request has when it runs alone, after the steps it has
\* taken: initializeContext, the lookup's callback, parsePayload.
SoloDescriptor(r) ==
  LET out == initializeContext(r.request)
      looked == IF "LookupResolve" \in Range(r.history)
                THEN resolveRelated(out.ctx, out.field,
                                    FindByIds(out.ctx.type, out.ctx.ids))
                ELSE out.ctx
      result == parsePayload(inflectType, looked, r.request.body)
  IN  IF "ParsePayload" \in Range(r.history)
      THEN [afterParse(looked, result) EXCEPT !.payload = result.out]
      ELSE looked

\* The response a request has when it runs alone, after the steps it has
\* taken, given what the store answered it.
SoloResponse(r) ==
  LET out == initializeContext(r.request)
      first == IF out.kind = "options"
               THEN [NoResponse EXCEPT !.statusCode = 204,
                                       !.allow = allowHeader(r.request.uri)]
               ELSE NoResponse
      shown == IF r.contextResponse.hasRecords
               THEN showResponse(inflectType, r.request.meta,
                                 r.contextResponse.records,
                                 r.contextResponse.count,
                                 r.contextResponse.updateModified)
               ELSE Shown(NoError, FALSE, NoPayload, <<>>)
      last == r.history[Len(r.history)]
  IN  IF last = "ProcessResponse" /\ shown.err # NoError /\ ~shown.thrown
      THEN [first EXCEPT !.payload = showError(shown.err)]
      ELSE IF last = "ProcessResponse"
      THEN [first EXCEPT !.payload = shown.payload, !.location = shown.location]
      ELSE IF last = "ProcessError" /\ r.error.message = "isMethodInvalid"
      THEN first
      ELSE IF last = "ProcessError" /\ r.error.message = "isTypeUnspecified"
      THEN [first EXCEPT !.payload = showIndex(inflectType), !.statusCode = 200]
      ELSE IF last = "ProcessError"
      THEN [first EXCEPT
              !.payload = showError([r.error EXCEPT !.keys = addHeaders(@)])]
      ELSE first

\* The requests in flight: the running one and the waiting ones.
RequestsInFlight == {InFlight} \cup Range(suspended)

-----------------------------------------------------------------------------
(* Properties of the include list.                                         *)

\* The request names include paths and its queries have been attached.
IncludeRequested ==
  /\ pc # "idle"
  /\ HasKey(request.uri.query, reservedInclude)

\* The paths the request names, as sent.
NamedPaths == QueryValue(request.uri.query, reservedInclude)

IsStrictPrefix(j, path) ==
  /\ Len(j) >= 1
  /\ Len(j) < Len(path)
  /\ j = SubSeq(path, 1, Len(j))

SegmentsWithinLimit(include) ==
  \A k \in 1..Len(include) :
    Len(include[k]) >= 1 /\ Len(include[k]) <= includeLimit

PrefixClosed(include) ==
  \A k \in 1..Len(include) :
    \A i \in 1..(Len(include[k]) - 1) :
      \E m \in 1..Len(include) : include[m] = SubSeq(include[k], 1, i)

\* The list begins with the named paths, in order, each inflected and cut
\* to includeLimit segments.
BeginsWithNamedPaths(include) ==
  /\ Len(include) >= Len(NamedPaths)
  /\ \A k \in 1..Len(NamedPaths) :
       /\ Len(include[k]) = (IF Len(NamedPaths[k]) < includeLimit
                             THEN Len(NamedPaths[k]) ELSE includeLimit)
       /\ \A i \in 1..Len(include[k]) :
            include[k][i] = inflectField(NamedPaths[k][i])

\* What follows the named paths are strict prefixes of listed paths, none
\* equal to another path of the list.
AppendedOnlyWhenMissing(include) ==
  \A k \in (Len(NamedPaths) + 1)..Len(include) :
    /\ \E m \in 1..(k - 1) : IsStrictPrefix(include[k], include[m])
    /\ \A m \in 1..Len(include) : m # k => include[m] # include[k]

\* The expansion ends: every named path adds fewer paths than it has
\* segments.
ExpansionBounded(include) ==
  Len(include) <= Len(NamedPaths) * includeLimit

\* C27 as stated: after parsing include, every path has between 1 and
\* includeLimit segments, the list is prefix-closed, and no two paths of the
\* list are structurally equal.
IncludeHasNoEqualPaths ==
  IncludeRequested =>
    LET include == contextRequest.include
    IN  /\ SegmentsWithinLimit(include)
        /\ PrefixClosed(include)
        /\ \A k, m \in 1..Len(include) : k # m => include[k] # include[m]

\* C27, amended: after parsing include, every path has between 1 and
\* includeLimit segments and the list is prefix-closed; the list begins with
\* the named paths as sent (repeated when the request names a path twice or
\* two named paths are cut to the same path), a prefix is appended only when
\* no equal path is in the list, so no appended path equals another path,
\* and the list never grows beyond includeLimit paths per named path.
IncludeListExpanded ==
  IncludeRequested =>
    LET include == contextRequest.include
    IN  /\ SegmentsWithinLimit(include)
        /\ PrefixClosed(include)
        /\ BeginsWithNamedPaths(include)
        /\ AppendedOnlyWhenMissing(include)
        /\ ExpansionBounded(include)

\* Two named paths are cut to the same path and prefixes were appended.
EqualPathsKept ==
  /\ IncludeRequested
  /\ Len(contextRequest.include) > Len(NamedPaths)
  /\ \E k, m \in 1..Len(NamedPaths) :
       /\ k # m
       /\ Len(NamedPaths[k]) > includeLimit
       /\ contextRequest.include[k] = contextRequest.include[m]

-----------------------------------------------------------------------------
(* Properties of the methods a route allows.                               *)

\* The request's HTTP method is not in the Allow set of its URI's degree.
MethodNotAllowed ==
  /\ pc # "idle"
  /\ request.method \notin Range(allowHeader(request.uri))

\* The store calls that create, update or delete records of a registered
\* type.
MutatingCalls ==
  { i \in 1..Len(storeCalls) :
      /\ storeCalls[i].method \in {"create", "update", "delete"}
      /\ storeCalls[i].type \in RecordTypeNames }

\* C28: a request whose HTTP method is outside the Allow set of its URI's
\* degree never has a create, update or delete handed to the store.
DisallowedMethodNeverMutates ==
  MethodNotAllowed => MutatingCalls = {}

-----------------------------------------------------------------------------
(* Properties of the links of a resource node.                             *)

\* What the router makes of a link submitted as the URI of a GET request.
Routed(link) == initializeContext(Req("GET", fromUri(link), NoBody))

\* The router takes the link for the record of that type and identifier
\* and, for a field, for that field of it, without refusing the route.
RoutedTo(link, type, id, field, isRelationship) ==
  LET out == Routed(link)
  IN  /\ out.kind = (IF field = Nil THEN "ready" ELSE "lookup")
      /\ out.err = NoError
      /\ out.ctx.type = type
      /\ out.ctx.ids = <<id>>
      /\ out.field = field
      /\ (out.ctx.uriObject.relationship # Nil) = isRelationship

\* C29: every self and related link of a rendered resource node and of its
\* relationships, submitted back as the URI of a GET request, is routed to
\* the type, identifier and field it was built from and is not refused as
\* not found.
NodeLinksRouteBack ==
  Rendered =>
    \A i \in 1..Len(response.payload.data) :
      LET node == response.payload.data[i]
          type == request.meta.type
          record == contextResponse.records[i]
          fields == LinkFieldSeq(type)
      IN  /\ RoutedTo(node.self, type, record.id, Nil, FALSE)
          /\ Len(node.relLinks) = Len(fields)
          /\ \A k \in 1..Len(fields) :
               /\ RoutedTo(node.relLinks[k].self, type, record.id,
                           fields[k], TRUE)
               /\ RoutedTo(node.relLinks[k].related, type, record.id,
                           fields[k], FALSE)

\* A node was rendered for a user that is linked to nothing, with links to
\* both relationships.
UnlinkedNodeRendered ==
  /\ Rendered
  /\ request.meta.type = "user"
  /\ Len(response.payload.data) = 1
  /\ contextResponse.records[1].spouse = NullId
  /\ contextResponse.records[1].ownedPets = <<>>
  /\ Len(response.payload.data[1].relLinks) = 2
  /\ response.payload.data[1].relLinks[2].related =
       <<"/", "users", "/", "3", "/", "owned-pets">>

-----------------------------------------------------------------------------
(* Properties of the offsets of the pagination links.                      *)

\* A collection find whose count exceeds the limit.
PagedFind ==
  /\ CollectionFind
  /\ contextResponse.count > request.meta.options.limit

\* decodeURIComponent on the key of a link's parameter.
DecodedKey(k) ==
  CASE k = encodedOffset -> pageOffset
    [] k = encodedLimit -> pageLimit
    [] OTHER -> k

\* The query of a link as the router reads it.
LinkQuery(link) ==
  LET params == ParamsOf(QueryOf(link), "?")
  IN  [i \in 1..Len(params) |-> Param(DecodedKey(params[i].k), params[i].v)]

\* The page[offset] of a link, read as the router reads it.
LinkOffset(link) == attachQueries(LinkQuery(link)).offset

\* The links of the answer to a GET of a link, the store's count being the
\* same.
LinksOf(link) ==
  LET query == LinkQuery(link)
      options == attachQueries(query)
  IN  collectionLinks(inflectType, inflectIn(link[2]), query,
                      contextResponse.count, options.limit, options.offset)

\* Following next from a link reaches, in at most that many steps, a page
\* at the offset of last, and that page has no next link.
RECURSIVE ReachesLast(_, _, _)
ReachesLast(link, last, steps) ==
  IF LinkOffset(link) = LinkOffset(last) THEN LinksOf(link).next = <<>>
  ELSE /\ steps > 0
       /\ LinksOf(link).next # <<>>
       /\ ReachesLast(LinksOf(link).next, last, steps - 1)

IsPageStart(offset, limit, count) ==
  /\ offset >= 0
  /\ offset < count
  /\ offset % limit = 0

\* C30 as stated: when count > limit, the offset of every pagination link
\* is a multiple of limit within [0, count), next's offset is greater and
\* prev's offset smaller than the current offset, and following next from
\* first reaches the page at last's offset, which has no next link.
PaginationOffsetsWithinCount ==
  PagedFind =>
    LET links == response.payload.links
        count == contextResponse.count
        limit == request.meta.options.limit
    IN  /\ \A name \in PageLinkNames :
             links[name] # <<>> =>
               IsPageStart(LinkOffset(links[name]), limit, count)
        /\ links.next # <<>> => LinkOffset(links.next) > EffectiveOffset
        /\ links.prev # <<>> => LinkOffset(links.prev) < EffectiveOffset
        /\ ReachesLast(links.first, links.last, count)

\* C30, amended: when count > limit, the offsets of first, last and next
\* are multiples of limit within [0, count); prev's offset is a
\* non-negative multiple of limit smaller than the current offset, within
\* [0, count) when the current offset is; next's offset is greater than
\* the current offset; and following next from first reaches the page at
\* last's offset, which has no next link.
PaginationOffsetsChain ==
  PagedFind =>
    LET links == response.payload.links
        count == contextResponse.count
        limit == request.meta.options.limit
    IN  /\ \A name \in {"first", "last", "next"} :
             links[name] # <<>> =>
               IsPageStart(LinkOffset(links[name]), limit, count)
        /\ links.next # <<>> => LinkOffset(links.next) > EffectiveOffset
        /\ links.prev # <<>> =>
             /\ LinkOffset(links.prev) >= 0
             /\ LinkOffset(links.prev) % limit = 0
             /\ LinkOffset(links.prev) < EffectiveOffset
             /\ EffectiveOffset < count => LinkOffset(links.prev) < count
        /\ ReachesLast(links.first, links.last, count)

\* A page asked for beyond the end of the collection: its prev link names
\* a page beyond the end as well.
PrevBeyondCount ==
  /\ PagedFind
  /\ response.payload.links.prev # <<>>
  /\ LinkOffset(response.payload.links.prev) >= contextResponse.count
  /\ response.payload.links.first # <<>>
  /\ response.payload.links.first # response.payload.links.last

====
